---- MODULE Spec2Model ----
(***************************************************************************)
(* A model of the Webpack patcher (src/unnamed/part_000, class             *)
(* WebpackPatcher, version 2.0.0): patch registration, the lazy factory    *)
(* wrappers, and the find/replace engine.                                  *)
(*                                                                         *)
(* Source text is a sequence of tokens.  A token is a pair <<text, name>>: *)
(* a code token has name "", a placeholder token is one of the three       *)
(* engine placeholders, and a resolved placeholder carries the registrar   *)
(* name it refers to.                                                      *)
(***************************************************************************)
EXTENDS Integers, Sequences, FiniteSets, TLC

\* ------------------------------------------------------------------ bounds

\* register calls made in one behaviour
MaxRegister == 2
\* factories the host assigns after detection (the set trap), in total
MaxAssign == 1
\* the attempt counters saturate here
MaxCount == 2
\* caller-supplied data / functions objects a register call may pass
NumObjs == 1
\* add/remove listener calls made in one behaviour
MaxListen == 2
\* set_patcher calls
MaxAttach == 2
\* calls made on the WebpackPatchRegistrar
MaxCalls == 4
\* replacement rules of a patch
MaxRules == 2
\* listener invocations logged before the page stops emitting
MaxDelivered == 3
\* assignments the page makes to the global chunk array slot
MaxSlotWrites == 3
\* calls of push on the global chunk array
MaxPushes == 2
\* calls of register_patch of the array-push patcher
MaxLegacyRegister == 2

\* ------------------------------------------------------------------ tokens

Tok(s) == <<s, "">>

\* this.placeholders (constructor)
placeholders ==
    [self |-> Tok("PLACEHOLDER_SELF"),
     functions |-> Tok("PLACEHOLDER_FUNCTIONS"),
     data |-> Tok("PLACEHOLDER_DATA")]

PlaceholderTokens == {placeholders.self, placeholders.functions, placeholders.data}

\* the text window.WebpackPatcher.Registrars["name"], ....functions, ....data
RegistrarRef(part, registrar_name) == <<part, registrar_name>>

\* a token the JavaScript parser rejects
SyntaxErrorToken == Tok("SYNTAX_ERROR")

\* ------------------------------------------------------------ string methods

\* lit occurs in text at position i
OccursAt(text, lit, i) ==
    /\ i >= 1
    /\ i + Len(lit) - 1 <= Len(text)
    /\ \A k \in 1..Len(lit) : text[i + k - 1] = lit[k]

\* String.prototype.includes
Includes(text, lit) == \E i \in 1..(Len(text) + 1) : OccursAt(text, lit, i)

\* String.prototype.indexOf (0 when absent, positions count from 1)
IndexOf(text, lit) ==
    IF Includes(text, lit)
    THEN CHOOSE i \in 1..(Len(text) + 1) :
            /\ OccursAt(text, lit, i)
            /\ \A j \in 1..(i - 1) : ~OccursAt(text, lit, j)
    ELSE 0

\* String.prototype.replace with a string pattern: the first occurrence
ReplaceFirst(text, lit, rep) ==
    LET i == IndexOf(text, lit) IN
    IF i = 0 THEN text
    ELSE SubSeq(text, 1, i - 1) \o rep \o SubSeq(text, i + Len(lit), Len(text))

\* String.prototype.replaceAll: every occurrence, left to right, not
\* rescanning the replacement
RECURSIVE ReplaceAll(_, _, _)
ReplaceAll(text, lit, rep) ==
    LET i == IndexOf(text, lit) IN
    IF i = 0 \/ Len(lit) = 0 THEN text
    ELSE SubSeq(text, 1, i - 1) \o rep
         \o ReplaceAll(SubSeq(text, i + Len(lit), Len(text)), lit, rep)

\* ------------------------------------------------------- factories (values)

\* A function object is identified by who made it: the host ("host": the
\* g-th factory assigned under module id m, 0 for one defined before
\* detection) or the engine's compile step
\* ("compiled": made for module m, in attempt g, by the patch at index i).
NoId == [k |-> "none", m |-> 0, g |-> 0, i |-> 0]
HostId(module_id, gen) == [k |-> "host", m |-> module_id, g |-> gen, i |-> 0]
CompiledId(module_id, attempt, index) ==
    [k |-> "compiled", m |-> module_id, g |-> attempt, i |-> index]

\* a function: its identity, its source text (toString) and the value of
\* its SYM_ORIGINAL_FACTORY property (NoId when unset)
Factory(id, text, original) == [id |-> id, text |-> text, orig |-> original]

NoFactory == Factory(NoId, <<>>, NoId)

\* ------------------------------------------------------- replacement rules

\* a replacement {match, replace, global}: match is a string or a RegExp
\* (regexp, with its global flag gflag), replace a string (fn = "none") or
\* a function that returns the text replace (fn = "returns") or throws
\* (fn = "throws"); global is "unset", "true" or "false"
Rule(match, replace) ==
    [match |-> match, regexp |-> FALSE, gflag |-> FALSE,
     replace |-> replace, fn |-> "none", global |-> "unset"]

\* func = global || (match instanceof RegExp && match.global) ? "replaceAll" : "replace"
ReplaceMethod(rule) ==
    IF rule.global = "true" \/ (rule.regexp /\ rule.gflag)
    THEN "replaceAll" ELSE "replace"

\* one pass of the rule loop: patched_code = patched_code[func](match, ...).
\* replaceAll throws a TypeError for a RegExp without the global flag;
\* replace with a global RegExp replaces every match; a throwing replace
\* function throws at the first match.
ApplyRule(patched_code, rule) ==
    LET func == ReplaceMethod(rule)
        found == Includes(patched_code, rule.match)
        all == func = "replaceAll" \/ (rule.regexp /\ rule.gflag)
    IN  IF func = "replaceAll" /\ rule.regexp /\ ~rule.gflag
        THEN [threw |-> TRUE, code |-> patched_code, replacement_occurred |-> FALSE]
        ELSE IF found /\ rule.fn = "throws"
        THEN [threw |-> TRUE, code |-> patched_code, replacement_occurred |-> FALSE]
        ELSE [threw |-> FALSE,
              code |-> IF all THEN ReplaceAll(patched_code, rule.match, rule.replace)
                       ELSE ReplaceFirst(patched_code, rule.match, rule.replace),
              replacement_occurred |-> found]

\* a variant that leaves the loop after the first rule that replaced something
RECURSIVE ApplyRulesStoppingEarly(_, _, _, _)
ApplyRulesStoppingEarly(patched_code, matches_and_replacements, i, total_replacements) ==
    IF i > Len(matches_and_replacements)
    THEN [threw |-> FALSE, code |-> patched_code,
          total_replacements |-> total_replacements]
    ELSE LET r == ApplyRule(patched_code, matches_and_replacements[i]) IN
         IF r.threw
         THEN [threw |-> TRUE, code |-> r.code,
               total_replacements |-> total_replacements]
         ELSE IF r.replacement_occurred
         THEN [threw |-> FALSE, code |-> r.code,
               total_replacements |-> total_replacements + 1]
         ELSE ApplyRulesStoppingEarly(r.code, matches_and_replacements, i + 1,
                                      total_replacements)

\* a variant that leaves the loop at the first rule that replaced nothing
RECURSIVE ApplyRulesStoppingAtMiss(_, _, _, _)
ApplyRulesStoppingAtMiss(patched_code, matches_and_replacements, i, total_replacements) ==
    IF i > Len(matches_and_replacements)
    THEN [threw |-> FALSE, code |-> patched_code,
          total_replacements |-> total_replacements]
    ELSE LET r == ApplyRule(patched_code, matches_and_replacements[i]) IN
         IF r.threw
         THEN [threw |-> TRUE, code |-> r.code,
               total_replacements |-> total_replacements]
         ELSE IF ~r.replacement_occurred
         THEN [threw |-> FALSE, code |-> r.code,
               total_replacements |-> total_replacements]
         ELSE ApplyRulesStoppingAtMiss(r.code, matches_and_replacements, i + 1,
                                       total_replacements + 1)

\* the loop over matches_and_replacements, from rule i on
RECURSIVE ApplyRules(_, _, _, _)
ApplyRules(patched_code, matches_and_replacements, i, total_replacements) ==
    IF i > Len(matches_and_replacements)
    THEN [threw |-> FALSE, code |-> patched_code,
          total_replacements |-> total_replacements]
    ELSE LET r == ApplyRule(patched_code, matches_and_replacements[i]) IN
         IF r.threw
         THEN [threw |-> TRUE, code |-> r.code,
               total_replacements |-> total_replacements]
         ELSE ApplyRules(r.code, matches_and_replacements, i + 1,
                         IF r.replacement_occurred
                         THEN total_replacements + 1 ELSE total_replacements)

\* a variant that leaves the data placeholder in the text
ResolveTokenWithoutData(tok, registrar_name) ==
    IF tok = placeholders.self THEN RegistrarRef("self", registrar_name)
    ELSE IF tok = placeholders.functions THEN RegistrarRef("functions", registrar_name)
    ELSE tok

\* one token through the three patched_code.replaceAll(placeholder, replacement)
ResolveToken(tok, registrar_name) ==
    IF tok = placeholders.self THEN RegistrarRef("self", registrar_name)
    ELSE IF tok = placeholders.functions THEN RegistrarRef("functions", registrar_name)
    ELSE IF tok = placeholders.data THEN RegistrarRef("data", registrar_name)
    ELSE tok

\* the "replace placeholders" loop
ResolvePlaceholders(patched_code, registrar_name) ==
    [k \in 1..Len(patched_code) |-> ResolveToken(patched_code[k], registrar_name)]

\* eval / new Function throws a SyntaxError on text the parser rejects
CompileThrows(patched_code) ==
    \E k \in 1..Len(patched_code) : patched_code[k] = SyntaxErrorToken

\* a variant that compiles the text even when no rule replaced anything
_apply_patch_unchecked(factory, factory_str, matches_and_replacements, new_id, registrar_name) ==
    LET original == [factory |-> factory, factory_str |-> factory_str]
        r == ApplyRules(factory_str, matches_and_replacements, 1, 0)
        patched_code == ResolvePlaceholders(r.code, registrar_name)
    IN  IF r.threw THEN original
        ELSE IF CompileThrows(patched_code) THEN original
        ELSE [factory |-> Factory(new_id, patched_code, NoId),
              factory_str |-> patched_code]

\* a variant whose compile step accepts every text
_apply_patch_compiling_any_text(factory, factory_str, matches_and_replacements, new_id, registrar_name) ==
    LET original == [factory |-> factory, factory_str |-> factory_str]
        r == ApplyRules(factory_str, matches_and_replacements, 1, 0)
        patched_code == ResolvePlaceholders(r.code, registrar_name)
    IN  IF r.threw THEN original
        ELSE IF r.total_replacements = 0 THEN original
        ELSE [factory |-> Factory(new_id, patched_code, NoId),
              factory_str |-> patched_code]

\* WebpackPatcher._apply_patch; new_id is the identity of the function the
\* compile step would create
_apply_patch(factory, factory_str, matches_and_replacements, new_id, registrar_name) ==
    LET original == [factory |-> factory, factory_str |-> factory_str]
        r == ApplyRules(factory_str, matches_and_replacements, 1, 0)
        patched_code == ResolvePlaceholders(r.code, registrar_name)
    IN  IF r.threw THEN original
        ELSE IF r.total_replacements = 0 THEN original
        ELSE IF CompileThrows(patched_code) THEN original
        ELSE [factory |-> Factory(new_id, patched_code, NoId),
              factory_str |-> patched_code]

\* ------------------------------------------------------------ pattern match

\* a find value: a string (kind "str"), a RegExp ("re") or an array of
\* strings ("arr"); oid is the identity of the RegExp or array object
\* (0 for a string, which === compares by value)
FindStr(lit) == [kind |-> "str", items |-> <<lit>>, oid |-> 0]
FindArr(items, oid) == [kind |-> "arr", items |-> items, oid |-> oid]

\* existing_patch.find === patch.find
FindStrictEq(f, g) ==
    IF f.kind = "str" /\ g.kind = "str" THEN f.items = g.items
    ELSE f.oid # 0 /\ f.oid = g.oid

\* WebpackPatcher._matches_identifier, for a string or a RegExp that
\* matches one literal text
_matches_identifier(value, identifier) == Includes(value, identifier)

\* a variant that takes every module for a match
_check_pattern_match_ignoring_find(factory_str, patch) == TRUE

\* WebpackPatcher._check_pattern_match
_check_pattern_match(factory_str, patch) ==
    \E k \in 1..Len(patch.find.items) :
        _matches_identifier(factory_str, patch.find.items[k])

\* ---------------------------------------------------------------- the world

\* code tokens of the host's factories and of the patches
ta == Tok("a")
tb == Tok("b")
tx == Tok("x")
ty == Tok("y")

\* the source texts of the factories the host defines
SourceTexts == {<<ta, tb>>, <<tb>>}

\* module ids of the host runtime
ModuleIds == {1, 2}

\* registrar names the consumer scripts use
Names == {"A", "B"}

\* The patch objects the consumer scripts hold, before any is registered.
\*   1: two chained rules (the second matches only the first one's output)
\*   2: its find occurs only in the output of patch 1
\*   3: the same find string as patch 1, in another object
\*   4: an array find; its only rule makes text the parser rejects
PatchIds == 1..4

InitialPatchObjects ==
    [pid \in PatchIds |->
        CASE pid = 1 -> [find |-> FindStr(<<ta>>), registrar_name |-> "",
                         replacements |-> <<Rule(<<ta>>, <<tx, placeholders.self>>),
                                            Rule(<<tx>>, <<ty>>)>>]
          [] pid = 2 -> [find |-> FindStr(<<ty>>), registrar_name |-> "",
                         replacements |-> <<Rule(<<ty>>, <<placeholders.data>>)>>]
          [] pid = 3 -> [find |-> FindStr(<<ta>>), registrar_name |-> "",
                         replacements |-> <<Rule(<<tb>>, <<placeholders.functions>>)>>]
          [] OTHER   -> [find |-> FindArr(<<<<tb>>, <<ta>>>>, pid), registrar_name |-> "",
                         replacements |-> <<Rule(<<ta>>, <<SyntaxErrorToken>>)>>]]

\* the consumer script that holds each patch object, by its registrar name
PatchOwner == [pid \in PatchIds |-> IF pid \in {1, 4} THEN "A" ELSE "B"]

\* the patch arrays a register call may pass
PatchLists == {<<pid>> : pid \in PatchIds}

\* The replacement rules a consumer may write for a patch whose find is "a":
\* the match "a" as a string, a RegExp and a RegExp with the g flag, each
\* with global unset, true and false; a rule whose match occurs nowhere; a
\* rule that replaces "a" by "a"; a rule that matches "b"; a rule whose
\* output the parser rejects; a rule whose replace function throws.
RuleSet ==
    {[Rule(<<ta>>, <<tx>>) EXCEPT !.regexp = re[1], !.gflag = re[2], !.global = g] :
        re \in {<<FALSE, FALSE>>, <<TRUE, FALSE>>, <<TRUE, TRUE>>},
        g \in {"unset", "true", "false"}}
    \cup {Rule(<<ty>>, <<tx>>),
          Rule(<<ta>>, <<ta>>),
          Rule(<<tb>>, <<ty>>),
          Rule(<<tb>>, <<SyntaxErrorToken>>),
          [Rule(<<ta>>, <<tx>>) EXCEPT !.fn = "throws"]}

\* the replacements arrays of at most MaxRules rules
RuleLists == UNION {[1..n -> RuleSet] : n \in 0..MaxRules}

\* the texts of the factories of a page on which these rules are tried
RuleTexts == {<<ta, tb, ta>>, <<ta, tb>>}

\* patch 1 with the given replacements
PatchObjectsWith(rules) ==
    [InitialPatchObjects EXCEPT ![1].replacements = rules]

\* The find a consumer may write for patch pid: the string "a", an array
\* literal ["b", "a"] of its own, or an array ["b", "a"] that the script
\* keeps in a variable and uses in several patches (object 9).
FindChoices(pid) ==
    {FindStr(<<ta>>),
     FindArr(<<<<tb>>, <<ta>>>>, pid),
     FindArr(<<<<tb>>, <<ta>>>>, 9)}

\* the patch objects of the page, each with one of the finds it may have
PatchObjectsWithFinds ==
    {[pid \in PatchIds |-> [InitialPatchObjects[pid] EXCEPT !.find = finds[pid]]] :
        finds \in {f \in [PatchIds -> UNION {FindChoices(pid) : pid \in PatchIds}] :
                      \A pid \in PatchIds : f[pid] \in FindChoices(pid)}}

\* ---------------------------------------------------------------- the state

VARIABLES
    patch_objects,        \* the patch objects (find, replacements, _registrar_name)
    patches,              \* this.patches: the registered patch objects, in order
    Registrars,           \* window.WebpackPatcher.Registrars
    patched_modules,      \* this.patched_modules
    module_factories,     \* the host's factory collection (the raw object)
    webpack_detected,     \* hook_webpack's webpack_detected flag
    cache_enabled,        \* this.cache_enabled
    factory_string_cache, \* this.factory_string_cache
    proxies,              \* the factory proxies created so far
    assigned,             \* per module id: the factories the host has defined
    register_calls,       \* register calls made so far
    returned,             \* the last register call: its arguments and what it returned
    attempts,             \* per module id: runs of the patch loop
    emitted,              \* the module_patched events emitted, in order
    first_call,           \* per module id: the invocation that ran the patch loop
    later_call,           \* per module id: the last invocation that found the id patched
    patcher,              \* WebpackPatchRegistrar: this.patcher (0 for null)
    patch_buffer,         \* WebpackPatchRegistrar: this.patch_buffer
    event_listener_buffer,\* WebpackPatchRegistrar: this.event_listener_buffer
    engine_calls,         \* the calls the registrar has made on a patcher, in order
    handles,              \* what each register call on the registrar returned
    subscribed,           \* the listeners, had every call reached a patcher at once
    attach_calls,         \* the patchers passed to set_patcher so far, in order
    event_listeners,      \* this.event_listeners
    delivered,            \* the listener and on_detect invocations, in order
    propagated,           \* an exception of consumer code has reached the host's code
    listener_calls,       \* add/remove listener calls made so far
    webpack_require,      \* this.webpack_require (0 for null)
    detected_collection,  \* the collection this.module_factories refers to (0 for null)
    written,              \* the objects whose modules slot has been written, in order
    observed,             \* what the accessors returned to each callback of a detection
    modules_slot,         \* per function object: its own modules property, if any
    cache_slot,           \* per function object: its own cache property, if any
    webpack_cache,        \* this.webpack_cache (0 for null)
    cache_detected,       \* hook_webpack's cache_detected flag
    window_slot,          \* array-push patcher: window[global_obj_key] as a property
    webpack_found,        \* detect_and_hook_webpack's webpack_found flag
    detect_called,        \* detect_and_hook_webpack has been called
    timers,               \* callbacks passed to setTimeout and not yet run
    callback_calls,       \* the invocations of detect_and_hook_webpack's callback
    slot_writes,          \* the values the page has assigned to the slot, in order
    global_obj,           \* array-push patcher: this.global_obj, the chunk array
    patch_targets,        \* array-push patcher: this.patch_targets
    legacy_patched_modules, \* array-push patcher: this.patched_modules
    patch_counts,         \* array-push patcher: this.patch_counts (0 when unset)
    hooked,               \* array-push patcher: this.hooked
    _module_cache,        \* array-push patcher: index in global_obj of the cached chunk
    _function_string_cache, \* array-push patcher: text per module id and method name
    pushes,               \* what each call of push on the chunk array was given and did
    legacy_registered,    \* the calls of register_patch: module id, methods, outcome
    on_detect,            \* this.on_detect
    filter_func           \* this.filter_func

\* the state of the array-push patcher and of the page it runs on
legacy_patcher_vars ==
    <<global_obj, patch_targets, legacy_patched_modules, patch_counts, hooked,
      _module_cache, _function_string_cache, pushes, legacy_registered>>

legacy_vars ==
    <<window_slot, webpack_found, detect_called, timers, callback_calls,
      slot_writes, legacy_patcher_vars>>

\* the state of the WebpackPatchRegistrar and what its callers have seen
registrar_vars ==
    <<patcher, patch_buffer, event_listener_buffer, engine_calls, handles,
      subscribed, attach_calls>>

\* the listeners of the patcher and what they have been called with
bus_vars == <<event_listeners, delivered, propagated, listener_calls>>

\* what hook_webpack has recorded, and the options it reads
detector_vars ==
    <<webpack_require, detected_collection, written, observed, modules_slot,
      cache_slot, webpack_cache, cache_detected, on_detect, filter_func,
      legacy_vars>>

vars ==
    <<patch_objects, patches, Registrars, patched_modules, module_factories,
      webpack_detected, cache_enabled, factory_string_cache, proxies, assigned,
      register_calls, returned, attempts, emitted, first_call, later_call,
      registrar_vars, bus_vars, detector_vars>>

\* ------------------------------------- values of the array-push patcher

\* the module ids of the PATCHES structure and of the pushed chunks
LegacyModuleIds == {1, 2}

\* the keys of a chunk's module[1]
MethodNames == {"f", "g"}

\* patch_targets.get(module_id) when the map has no entry, and an entry
NoTarget == [has |-> FALSE, methods |-> <<>>]
Target(methods) == [has |-> TRUE, methods |-> methods]

\* _function_string_cache.get(cache_key) when the map has no entry, and an entry
NoString == [has |-> FALSE, str |-> <<>>]
CachedString(str) == [has |-> TRUE, str |-> str]

\* a method patch configuration {identifiers, matches_and_replacements}
MethodPatch(identifiers, matches_and_replacements) ==
    [identifiers |-> identifiers,
     matches_and_replacements |-> matches_and_replacements]

\* a configuration whose rule replaces "a"; one whose identifier matches
\* but whose rule finds nothing; one whose output the parser rejects
MethodPatches ==
    {MethodPatch(<<<<ta>>>>, <<Rule(<<ta>>, <<tx>>)>>),
     MethodPatch(<<<<tb>>>>, <<Rule(<<ty>>, <<tx>>)>>),
     MethodPatch(<<<<tb>>>>, <<Rule(<<tb>>, <<SyntaxErrorToken>>)>>)}

\* the methods arrays passed to register_patch
MethodLists ==
    {<<>>} \cup {<<mp>> : mp \in MethodPatches}
    \cup {<<MethodPatch(<<<<ta>>>>, <<Rule(<<ta>>, <<tx>>)>>),
            MethodPatch(<<<<tb>>>>, <<Rule(<<tb>>, <<SyntaxErrorToken>>)>>)>>}

\* an entry of module[1]: a function with its text, or another value
Method(name, text) == [name |-> name, text |-> text, fn |-> TRUE]

\* A value passed to push.  kind "chunk" is an array of length >= 2:
\* iterable tells whether its element 0 is iterable (ids are its members),
\* entries are Object.entries(module[1]), and has_exports is FALSE when
\* module[1] is null.  kind "short" is an array of length 1, kind "other"
\* is not an array.  ref identifies the object.
Chunk(ids, entries) ==
    [kind |-> "chunk", iterable |-> TRUE, ids |-> ids, has_exports |-> TRUE,
     entries |-> entries, ref |-> <<0, 0>>]

PushedValues ==
    {Chunk(<<1>>, <<Method("f", <<ta, tb>>)>>),
     Chunk(<<1, 2>>, <<Method("f", <<ta, tb>>), Method("g", <<tb>>)>>),
     Chunk(<<2, 2>>, <<Method("g", <<tb>>), [Method("f", <<>>) EXCEPT !.fn = FALSE]>>),
     [Chunk(<<1>>, <<>>) EXCEPT !.has_exports = FALSE],
     [Chunk(<<>>, <<>>) EXCEPT !.iterable = FALSE],
     [Chunk(<<>>, <<>>) EXCEPT !.kind = "short"],
     [Chunk(<<>>, <<>>) EXCEPT !.kind = "other"]}

\* the argument lists of a call of push
PushedArgs ==
    {<<v>> : v \in PushedValues}
    \cup {<<[Chunk(<<>>, <<>>) EXCEPT !.kind = "other"],
             Chunk(<<1>>, <<Method("f", <<ta, tb>>)>>)>>,
           <<Chunk(<<1>>, <<Method("f", <<ta, tb>>)>>),
             [Chunk(<<>>, <<>>) EXCEPT !.iterable = FALSE]>>}

\* The function objects of the page whose modules slot is written.  Object 1
\* is the runtime of the page; object 2 has no "exports:{}" in its text;
\* filter_func, when the patcher has one, returns false for object 3.
HostObjects == {1, 2, 3}

\* A hooked property of a function object: own is false while the object
\* inherits the accessor of Function.prototype; once the object has the
\* property itself it holds value, the collection proxy around it when
\* proxied is true.
NoSlot == [own |-> FALSE, value |-> 0, proxied |-> FALSE]

\* a variant of the setters that leaves the accessor in place
SlotLeftToTheAccessor(value) == [own |-> FALSE, value |-> value, proxied |-> FALSE]

\* "original_define_property(this, name, {value, writable: true,
\* configurable: true})", the first statement of both setters
RestoredSlot(value) == [own |-> TRUE, value |-> value, proxied |-> FALSE]

\* the modules property after an accepted write: the proxied collection
ProxiedSlot(value) == [own |-> TRUE, value |-> value, proxied |-> TRUE]

\* window[global_obj_key] as a property of window: absent, the accessor
\* detect_and_hook_webpack defines (a setter and no getter), or a data
\* property holding value (0 for a falsy value)
AbsentSlot == [kind |-> "absent", value |-> 0]
AccessorSlot == [kind |-> "accessor", value |-> 0]

\* a variant of the setter that leaves its accessor on window
AccessorKept(value) == [kind |-> "accessor", value |-> 0]

\* "Object.defineProperty(window, global_obj_key, {configurable: true,
\* enumerable: true, writable: true, value: value})", and a plain assignment
DataSlot(value) == [kind |-> "data", value |-> value]

\* an entry of the factory collection: absent, a plain function, or a
\* factory proxy around the function f
Absent == [kind |-> "absent", f |-> NoFactory]
Function(f) == [kind |-> "function", f |-> f]
\* a variant of the wrapping that stores the function itself
StoredUnwrapped(f) == [kind |-> "function", f |-> f]
Proxy(f) == [kind |-> "proxy", f |-> f]

NoRegistrar == [created |-> 0, data |-> 0, functions |-> 0]
\* no invocation has run the patch loop for the module yet
NoCall == [target |-> NoFactory, steps |-> <<>>, after |-> <<>>, result |-> NoFactory]
\* no invocation has taken an early return for the module yet
NoLaterCall == [target |-> NoFactory, ran |-> NoFactory]

RECURSIVE Sum(_, _)
Sum(f, S) == IF S = {} THEN 0 ELSE LET e == CHOOSE e \in S : TRUE IN f[e] + Sum(f, S \ {e})

TotalAssigned == Sum(assigned, ModuleIds)

Bump(n) == IF n < MaxCount THEN n + 1 ELSE n

\* Module ids the runtime's own bundle may define; the others arrive later,
\* through the set trap.
BundledModuleIds == {1}

\* the events of the patcher
Events == {"webpack_detected", "module_registered", "module_patched"}

\* the array-push patcher after its constructor, on a page whose chunk
\* array is empty
InitLegacyPatcher ==
    /\ global_obj = <<>>
    /\ patch_targets = [id \in LegacyModuleIds |-> NoTarget]
    /\ legacy_patched_modules = {}
    /\ patch_counts = [id \in LegacyModuleIds |-> 0]
    /\ hooked = FALSE
    /\ _module_cache = [id \in LegacyModuleIds |-> 0]
    /\ _function_string_cache =
          [id \in LegacyModuleIds |-> [name \in MethodNames |-> NoString]]
    /\ pushes = <<>>
    /\ legacy_registered = <<>>

\* The patcher after its constructor, on a page whose consumer scripts hold
\* the patch objects objs and whose bundle defines factories with the given
\* texts: before the runtime assigns its collection to the modules slot
\* every bundled module is absent or a function the host defined.
InitEngineWith(objs, texts, enable_cache) ==
    /\ patch_objects = objs
    /\ patches = <<>>
    /\ Registrars = [n \in Names |-> NoRegistrar]
    /\ patched_modules = {}
    /\ \E h \in [ModuleIds -> {<<>>} \cup texts] :
          /\ \A m \in ModuleIds \ BundledModuleIds : h[m] = <<>>
          /\ module_factories =
                [m \in ModuleIds |->
                    IF h[m] = <<>> THEN Absent
                    ELSE Function(Factory(HostId(m, 0), h[m], NoId))]
    /\ assigned = [m \in ModuleIds |-> 0]
    /\ webpack_detected = FALSE
    /\ cache_enabled \in enable_cache
    /\ factory_string_cache = [m \in ModuleIds |-> <<>>]
    /\ proxies = {}
    /\ register_calls = 0
    /\ returned = [options |-> [name |-> "", data |-> 0, functions |-> 0],
                   list |-> <<>>, registrar |-> NoRegistrar]
    /\ attempts = [m \in ModuleIds |-> 0]
    /\ emitted = <<>>
    /\ first_call = [m \in ModuleIds |-> NoCall]
    /\ later_call = [m \in ModuleIds |-> NoLaterCall]
    /\ event_listeners = [e \in Events |-> <<>>]
    /\ delivered = <<>>
    /\ propagated = FALSE
    /\ listener_calls = 0
    /\ webpack_require = 0
    /\ detected_collection = 0
    /\ written = <<>>
    /\ observed = <<>>
    /\ modules_slot = [obj \in HostObjects |-> NoSlot]
    /\ cache_slot = [obj \in HostObjects |-> NoSlot]
    /\ webpack_cache = 0
    /\ cache_detected = FALSE
    /\ window_slot = AbsentSlot
    /\ webpack_found = FALSE
    /\ detect_called = FALSE
    /\ timers = 0
    /\ callback_calls = <<>>
    /\ slot_writes = <<>>
    /\ InitLegacyPatcher

\* the patcher constructed without the enable_cache option
InitEngine(objs, texts) == InitEngineWith(objs, texts, {FALSE})

\* the patcher on a page whose consumer scripts hold the patch objects of
\* InitialPatchObjects
InitPatcher == InitEngine(InitialPatchObjects, SourceTexts)

\* the WebpackPatchRegistrar after its constructor
InitRegistrar ==
    /\ patch_buffer = <<>>
    /\ event_listener_buffer = <<>>
    /\ engine_calls = <<>>
    /\ handles = <<>>
    /\ subscribed = [e \in Events |-> <<>>]
    /\ attach_calls = <<>>

\* main has run: the patcher is initialized without on_detect and
\* filter_func and attached to the registrar
Init ==
    /\ InitPatcher
    /\ InitRegistrar
    /\ patcher = 1
    /\ on_detect = "none"
    /\ filter_func = "none"

\* ------------------------------------------------------------ registration

\* the index in this.patches of the first patch whose find === find, or 0
ExistingPatch(objs, ps, find) ==
    IF \E k \in 1..Len(ps) : FindStrictEq(objs[ps[k]].find, find)
    THEN CHOOSE k \in 1..Len(ps) :
            /\ FindStrictEq(objs[ps[k]].find, find)
            /\ \A j \in 1..(k - 1) : ~FindStrictEq(objs[ps[j]].find, find)
    ELSE 0

\* one pass of "for (const patch of patches)": the patch object pid is
\* stamped with the registrar name, then merged into the first registered
\* patch with the same find or appended to this.patches
RegisterOne(st, pid, registrar_name) ==
    LET stamped == [st.objs EXCEPT ![pid].registrar_name = registrar_name]
        k == ExistingPatch(stamped, st.ps, stamped[pid].find)
    IN  IF k # 0
        THEN [objs |-> [stamped EXCEPT ![st.ps[k]].replacements =
                            @ \o stamped[pid].replacements],
              ps |-> st.ps]
        ELSE [objs |-> stamped, ps |-> Append(st.ps, pid)]

RECURSIVE RegisterAll(_, _, _, _)
RegisterAll(st, list, i, registrar_name) ==
    IF i > Len(list) THEN st
    ELSE RegisterAll(RegisterOne(st, list[i], registrar_name), list, i + 1,
                     registrar_name)

\* the registrar object a register call creates: {data: options.data || {},
\* functions: options.functions || {}}.  An option is 0 when the caller
\* passes none (a fresh object, named by the negated call number) or the
\* number of the caller's object.
NewRegistrar(call, options) ==
    [created |-> call,
     data |-> IF options.data = 0 THEN -call ELSE options.data,
     functions |-> IF options.functions = 0 THEN -call ELSE options.functions]

\* "existing_registrar || {data: ..., functions: ...}": the object the call
\* would install (existing_registrar is NoRegistrar for null)
RegistrarObj(existing_registrar, call, options) ==
    IF existing_registrar # NoRegistrar THEN existing_registrar
    ELSE NewRegistrar(call, options)

\* a variant in which every register call installs a registrar of its own
RegistrarAlwaysNew(existing, registrar_obj) == registrar_obj

\* "if (!window.WebpackPatcher.Registrars[registrar_name])": the registrar
\* the slot holds after the call, given the one it held before
RegistrarFor(existing, registrar_obj) ==
    IF existing = NoRegistrar THEN registrar_obj ELSE existing

\* What register_patches(options, patches, existing_registrar) makes of the
\* registrars, the patch objects and this.patches (eng); call numbers the
\* registrar object it may create.
RegisterOn(eng, options, list, existing_registrar, call) ==
    LET st == RegisterAll([objs |-> eng.objs, ps |-> eng.ps], list, 1, options.name)
    IN  [Registrars |->
            [eng.Registrars EXCEPT ![options.name] =
                RegistrarFor(@, RegistrarObj(existing_registrar, call, options))],
         objs |-> st.objs,
         ps |-> st.ps]

RegisterOptions == [name : Names, data : 0..NumObjs, functions : 0..NumObjs]

\* WebpackPatcher.register_patches(options, patches); hook_webpack has run
\* already (WebpackPatcher.initialize), so this.hooked is true
register_patches(options, list) ==
    \E eng \in {RegisterOn([Registrars |-> Registrars, objs |-> patch_objects,
                             ps |-> patches],
                            options, list, NoRegistrar, register_calls + 1)} :
        /\ register_calls < MaxRegister
        /\ register_calls' = register_calls + 1
        /\ Registrars' = eng.Registrars
        /\ patch_objects' = eng.objs
        /\ patches' = eng.ps
        /\ returned' = [options |-> options, list |-> list,
                        registrar |-> Registrars'[options.name]]
        /\ UNCHANGED <<patched_modules, module_factories, webpack_detected,
                       cache_enabled, factory_string_cache, proxies, assigned,
                       attempts, emitted, first_call, later_call>>
        /\ UNCHANGED <<bus_vars, detector_vars>>

\* a consumer script registers one of its patch arrays under its name
Register == \E list \in PatchLists :
    /\ register_patches([name |-> PatchOwner[list[1]], data |-> 0, functions |-> 0], list)
    /\ UNCHANGED registrar_vars

\* a register call with any options
RegisterWithOptions == \E options \in RegisterOptions, list \in PatchLists :
    /\ register_patches(options, list)
    /\ UNCHANGED registrar_vars

\* ------------------------------------------------------------------ events

\* the callbacks consumer scripts subscribe; callback 1 throws when called
Callbacks == {1, 2}
Throws(callback) == callback = 1

\* the event names a consumer may pass: the three events and another name
EventNames == {"webpack_detected", "module_registered", "nonexistent"}

\* WebpackPatcher.add_event_listener: the listeners after the call
add_event_listener(listeners, event, callback) ==
    IF event \notin Events THEN listeners
    ELSE [listeners EXCEPT ![event] = Append(@, callback)]

\* Array.prototype.indexOf on a listener array (0 when absent)
ListenerIndex(list, callback) ==
    IF \E k \in 1..Len(list) : list[k] = callback
    THEN CHOOSE k \in 1..Len(list) :
            /\ list[k] = callback
            /\ \A j \in 1..(k - 1) : list[j] # callback
    ELSE 0

\* WebpackPatcher.remove_event_listener: the listeners after the call
remove_event_listener(listeners, event, callback) ==
    IF event \notin Events THEN listeners
    ELSE LET index == ListenerIndex(listeners[event], callback) IN
         IF index = 0 THEN listeners
         ELSE [listeners EXCEPT ![event] =
                  SubSeq(@, 1, index - 1) \o SubSeq(@, index + 1, Len(@))]

\* what an emitting operation has done so far: the invocations it made and
\* whether an exception has left the dispatch
Dispatch(log) == [delivered |-> log, propagated |-> FALSE]

\* "try { listener(...args) } catch (e) { logger.error }"
CallListener(st, event, callback, args) ==
    [st EXCEPT !.delivered =
        Append(@, [event |-> event, callback |-> callback, args |-> args])]

\* a variant without the try/catch: a throwing listener ends the dispatch
RECURSIVE EmitLoopWithoutCatch(_, _, _, _, _)
EmitLoopWithoutCatch(st, listeners, event, args, i) ==
    IF i > Len(listeners) THEN st
    ELSE IF Throws(listeners[i])
    THEN [CallListener(st, event, listeners[i], args) EXCEPT !.propagated = TRUE]
    ELSE EmitLoopWithoutCatch(CallListener(st, event, listeners[i], args),
                              listeners, event, args, i + 1)

\* "for (const listener of this.event_listeners[event])", from index i on
RECURSIVE EmitLoop(_, _, _, _, _)
EmitLoop(st, listeners, event, args, i) ==
    IF i > Len(listeners) THEN st
    ELSE EmitLoop(CallListener(st, event, listeners[i], args),
                  listeners, event, args, i + 1)

\* WebpackPatcher._emit_event
_emit_event(st, event, args) ==
    IF event \notin Events THEN st
    ELSE EmitLoop(st, event_listeners[event], event, args, 1)

\* "if (self.on_detect) { try { self.on_detect(...) } catch (e) {...} }"
CallOnDetect(st, args) ==
    IF on_detect = "none" THEN st
    ELSE CallListener(st, "on_detect", 0, args)

\* A consumer subscribes a callback on the patcher.
AddListener(event, callback) ==
    /\ listener_calls < MaxListen
    /\ listener_calls' = listener_calls + 1
    /\ event_listeners' = add_event_listener(event_listeners, event, callback)
    /\ UNCHANGED <<delivered, propagated>>
    /\ UNCHANGED <<patch_objects, patches, Registrars, patched_modules,
                   module_factories, webpack_detected, cache_enabled,
                   factory_string_cache, proxies, assigned, register_calls,
                   returned, attempts, emitted, first_call, later_call>>
    /\ UNCHANGED <<registrar_vars, detector_vars>>

\* A consumer unsubscribes a callback from the patcher.
RemoveListener(event, callback) ==
    /\ listener_calls < MaxListen
    /\ listener_calls' = listener_calls + 1
    /\ event_listeners' = remove_event_listener(event_listeners, event, callback)
    /\ UNCHANGED <<delivered, propagated>>
    /\ UNCHANGED <<patch_objects, patches, Registrars, patched_modules,
                   module_factories, webpack_detected, cache_enabled,
                   factory_string_cache, proxies, assigned, register_calls,
                   returned, attempts, emitted, first_call, later_call>>
    /\ UNCHANGED <<registrar_vars, detector_vars>>

\* Callbacks that call back into the patcher while an event is dispatched:
\* callback 3 unsubscribes itself from the event, callback 4 unsubscribes
\* callback 2, callback 5 subscribes callback 2.
ReentrantCallbacks == {3, 4, 5}

\* the listeners of the event after the callback has run
Reaction(listeners, event, callback) ==
    CASE callback = 3 -> remove_event_listener(listeners, event, 3)
      [] callback = 4 -> remove_event_listener(listeners, event, 2)
      [] callback = 5 -> add_event_listener(listeners, event, 2)
      [] OTHER -> listeners

\* "for (const listener of this.event_listeners[event])" over the array as
\* the callbacks leave it: the iterator reads index i of the array of that
\* moment and stops when i is past its end.  st is {delivered, propagated,
\* listeners}.
RECURSIVE EmitLoopLive(_, _, _, _)
EmitLoopLive(st, event, args, i) ==
    IF i > Len(st.listeners[event]) THEN st
    ELSE EmitLoopLive(
             [delivered |-> Append(st.delivered,
                                   [event |-> event, callback |-> st.listeners[event][i],
                                    args |-> args]),
              propagated |-> st.propagated,
              listeners |-> Reaction(st.listeners, event, st.listeners[event][i])],
             event, args, i + 1)

\* WebpackPatcher._emit_event called by an operation of the patcher while
\* callbacks of any kind are subscribed
EmitEvent(event) ==
    \E st \in {EmitLoopLive([delivered |-> delivered, propagated |-> FALSE,
                             listeners |-> event_listeners], event, <<>>, 1)} :
        /\ Len(delivered) < MaxDelivered
        /\ delivered' = st.delivered
        /\ event_listeners' = st.listeners
        /\ UNCHANGED <<propagated, listener_calls>>
        /\ UNCHANGED <<patch_objects, patches, Registrars, patched_modules,
                       module_factories, webpack_detected, cache_enabled,
                       factory_string_cache, proxies, assigned, register_calls,
                       returned, attempts, emitted, first_call, later_call>>
        /\ UNCHANGED <<registrar_vars, detector_vars>>

Emits == \E event \in Events : EmitEvent(event)

\* a consumer script subscribes a callback of any kind
SubscribesAny == \E event \in Events, callback \in Callbacks \cup ReentrantCallbacks :
    AddListener(event, callback)

\* a consumer script subscribes or unsubscribes one of its callbacks
Subscribes == \E event \in EventNames, callback \in Callbacks :
    AddListener(event, callback)

Unsubscribes == \E event \in EventNames, callback \in Callbacks :
    RemoveListener(event, callback)

\* --------------------------------------------------------------- detection

\* WebpackPatcher._create_factory_proxy: a Proxy around factory whose
\* handlers close over module_id
_create_factory_proxy(module_id, factory) == [module_id |-> module_id, target |-> factory]

\* String(this).includes("exports:{}")
HasMarker(obj) == obj # 2

\* self.filter_func(this, stack_lines) throws: the patcher was given a
\* filter_func that throws on the objects it is called with
FilterThrows(obj) == filter_func = "throws"

\* self.filter_func(this, stack_lines) returns true
FilterAccepts(obj) == ~FilterThrows(obj) /\ obj # 3

\* the setter gets as far as "self.filter_func(this, stack_lines)" and the
\* call throws; nothing in the setter catches it
ReachesThrowingFilter(obj) ==
    /\ ~webpack_detected
    /\ HasMarker(obj)
    /\ filter_func # "none"
    /\ FilterThrows(obj)

\* a variant of the early returns without the webpack_detected test
RejectedUnlessDetected(obj) ==
    \/ ~HasMarker(obj)
    \/ (filter_func # "none" /\ ~FilterAccepts(obj))

\* a variant of the early returns without the filter_func test
RejectedByMarkerOnly(obj) ==
    \/ webpack_detected
    \/ ~HasMarker(obj)

\* the three early returns of the modules setter
Rejected(obj) ==
    \/ webpack_detected
    \/ ~HasMarker(obj)
    \/ (filter_func # "none" /\ ~FilterAccepts(obj))

\* What consumer code reads from window.WebpackPatcher when the attached
\* patcher has the given webpack_require and module_factories (0 for null):
\* "this.patcher?.webpack_require || null",
\* "this.patcher?.module_factories || null",
\* "this.patcher?.webpack_require != null"
Accessors(require, factories) ==
    [webpackRequire |-> require,
     moduleFactories |-> factories,
     isWebpackDetected |-> require # 0]

\* what each of the callbacks called between the two logs read, the patcher
\* having the given fields while they ran
ObservedBy(before, after, require, factories) ==
    [k \in 1..(Len(after) - Len(before)) |-> Accessors(require, factories)]

\* The setter hook_webpack installs on Function.prototype for the modules
\* slot, called for a write to the slot of obj.  The write makes the slot an
\* own property of obj, so the setter runs once per object.  An accepted
\* write records the runtime and its collection, emits webpack_detected,
\* calls on_detect, and replaces every factory already in the collection by
\* a factory proxy.
ModulesSetter(obj) ==
    \E st \in {CallOnDetect(_emit_event(Dispatch(delivered), "webpack_detected",
                                         <<obj>>), <<obj>>)} :
        /\ \A k \in 1..Len(written) : written[k] # obj
        /\ ~modules_slot[obj].own
        /\ written' = Append(written, obj)
        /\ IF ReachesThrowingFilter(obj)
           THEN /\ propagated' = TRUE
                /\ modules_slot' = [modules_slot EXCEPT ![obj] = RestoredSlot(obj)]
                /\ UNCHANGED <<webpack_detected, webpack_require,
                               detected_collection, delivered, module_factories,
                               proxies, observed>>
           ELSE IF Rejected(obj)
           THEN /\ modules_slot' = [modules_slot EXCEPT ![obj] = RestoredSlot(obj)]
                /\ UNCHANGED <<webpack_detected, webpack_require,
                               detected_collection, delivered, propagated,
                               module_factories, proxies, observed>>
           ELSE /\ webpack_detected' = TRUE
                /\ modules_slot' = [modules_slot EXCEPT ![obj] = ProxiedSlot(obj)]
                /\ webpack_require' = obj
                /\ detected_collection' = obj
                /\ delivered' = st.delivered
                /\ propagated' = st.propagated
                /\ observed' = observed \o ObservedBy(delivered, st.delivered, obj,
                                                     detected_collection)
                /\ module_factories' =
                      [m \in ModuleIds |->
                          IF module_factories[m] = Absent THEN Absent
                          ELSE Proxy(_create_factory_proxy(m, module_factories[m].f).target)]
                /\ proxies' = proxies \cup
                      {_create_factory_proxy(m, module_factories[m].f) :
                          m \in {n \in ModuleIds : module_factories[n] # Absent}}
        /\ UNCHANGED <<patch_objects, patches, Registrars, patched_modules,
                       cache_enabled, factory_string_cache, assigned, register_calls,
                       returned, attempts, emitted, first_call, later_call>>
        /\ UNCHANGED <<registrar_vars, event_listeners, listener_calls, on_detect,
                       filter_func, cache_slot, webpack_cache, cache_detected,
                   legacy_vars>>

\* the runtime of the page assigns its collection to its modules slot
DetectWebpack ==
    /\ ~webpack_detected
    /\ ModulesSetter(1)

\* some function object of the page has its modules slot written
HostWritesModulesSlot == \E obj \in HostObjects : ModulesSetter(obj)

\* the objects the page assigns to the cache slot, or to a slot a function
\* object already has as its own property
AssignedValues == {4, 5}

\* the cache setter gets as far as "self.filter_func(this, stack_lines)" and
\* the call throws
CacheReachesThrowingFilter(obj) ==
    /\ ~cache_detected
    /\ HasMarker(obj)
    /\ filter_func # "none"
    /\ FilterThrows(obj)

\* the three early returns of the cache setter
CacheRejected(obj) ==
    \/ cache_detected
    \/ ~HasMarker(obj)
    \/ (filter_func # "none" /\ ~FilterAccepts(obj))

\* The setter hook_webpack installs on Function.prototype for the cache
\* slot, called for a write of cache_obj to the slot of obj: the slot becomes
\* an own property of obj, and an accepted write records cache_obj.
CacheSetter(obj, cache_obj) ==
    /\ ~cache_slot[obj].own
    /\ cache_slot' = [cache_slot EXCEPT ![obj] = RestoredSlot(cache_obj)]
    /\ IF CacheReachesThrowingFilter(obj)
       THEN /\ propagated' = TRUE
            /\ UNCHANGED <<cache_detected, webpack_cache>>
       ELSE IF CacheRejected(obj)
       THEN UNCHANGED <<propagated, cache_detected, webpack_cache>>
       ELSE /\ cache_detected' = TRUE
            /\ webpack_cache' = cache_obj
            /\ UNCHANGED propagated
    /\ UNCHANGED <<patch_objects, patches, Registrars, patched_modules,
                   module_factories, webpack_detected, cache_enabled,
                   factory_string_cache, proxies, assigned, register_calls,
                   returned, attempts, emitted, first_call, later_call>>
    /\ UNCHANGED <<registrar_vars, event_listeners, delivered, listener_calls,
                   webpack_require, detected_collection, written, observed,
                   modules_slot, on_detect, filter_func,
                   legacy_vars>>

\* some function object of the page has its cache slot written
HostWritesCacheSlot == \E obj \in HostObjects, cache_obj \in AssignedValues :
    CacheSetter(obj, cache_obj)

\* The page assigns to a slot the object has as its own property, which the
\* setters defined with "writable: true": a plain write, no setter runs.
AssignOwnSlot(obj, name, value) ==
    /\ IF name = "modules"
       THEN /\ modules_slot[obj].own
            /\ modules_slot[obj] # RestoredSlot(value)
            /\ modules_slot' = [modules_slot EXCEPT ![obj] = RestoredSlot(value)]
            /\ UNCHANGED cache_slot
       ELSE /\ cache_slot[obj].own
            /\ cache_slot[obj] # RestoredSlot(value)
            /\ cache_slot' = [cache_slot EXCEPT ![obj] = RestoredSlot(value)]
            /\ UNCHANGED modules_slot
    /\ UNCHANGED <<patch_objects, patches, Registrars, patched_modules,
                   module_factories, webpack_detected, cache_enabled,
                   factory_string_cache, proxies, assigned, register_calls,
                   returned, attempts, emitted, first_call, later_call>>
    /\ UNCHANGED <<registrar_vars, bus_vars, webpack_require, detected_collection,
                   written, observed, webpack_cache, cache_detected, on_detect,
                   filter_func,
                   legacy_vars>>

HostAssignsOwnSlot ==
    \E obj \in HostObjects, name \in {"modules", "cache"}, value \in AssignedValues :
        AssignOwnSlot(obj, name, value)

\* The set trap of the proxied collection: the host assigns a factory it
\* defined under module_id; the raw collection receives a factory proxy.
AssignFactory(module_id, text) ==
    LET factory == Factory(HostId(module_id, assigned[module_id] + 1), text, NoId)
        factory_proxy == _create_factory_proxy(module_id, factory)
        st == _emit_event(Dispatch(delivered), "module_registered",
                          <<module_id, factory.id>>)
    IN  /\ webpack_detected
        /\ TotalAssigned < MaxAssign
        /\ delivered' = st.delivered
        /\ propagated' = st.propagated
        /\ UNCHANGED <<registrar_vars, event_listeners, listener_calls, detector_vars>>
        /\ assigned' = [assigned EXCEPT ![module_id] = @ + 1]
        /\ module_factories' = [module_factories EXCEPT ![module_id] =
                                    Proxy(factory_proxy.target)]
        /\ proxies' = proxies \cup {factory_proxy}
        /\ UNCHANGED <<patch_objects, patches, Registrars, patched_modules,
                       webpack_detected, cache_enabled, factory_string_cache,
                       register_calls, returned, attempts, emitted, first_call, later_call>>

HostAssigns == \E module_id \in ModuleIds, text \in SourceTexts :
    AssignFactory(module_id, text)

\* ---------------------------------------------------------------- patching

\* a variant whose cache is not keyed by module id
_get_factory_string_of_any_module(module_id, factory) ==
    IF cache_enabled /\ \E n \in ModuleIds : factory_string_cache[n] # <<>>
    THEN factory_string_cache[CHOOSE n \in ModuleIds : factory_string_cache[n] # <<>>]
    ELSE factory.text

\* WebpackPatcher._get_factory_string: the cached text of the module id when
\* the cache is on and holds one, else factory.toString()
_get_factory_string(module_id, factory) ==
    IF cache_enabled /\ factory_string_cache[module_id] # <<>>
    THEN factory_string_cache[module_id]
    ELSE factory.text

\* a variant without the patched_modules test
ReturnsOnlyPatchedFactoriesAsIs(module_id, factory) == factory.orig # NoId

\* the two early returns of _get_or_patch_factory
ReturnsFactoryAsIs(module_id, factory) ==
    \/ factory.orig # NoId
    \/ module_id \in patched_modules

\* what one pass of the patch loop does with a patch: "skipped" (no find
\* matches), "threw" (a rule or the compile step throws), "no_replacement"
\* (no rule replaces anything) or "applied"
PatchStep(factory_str, patch) ==
    LET r == ApplyRules(factory_str, patch.replacements, 1, 0) IN
    IF ~_check_pattern_match(factory_str, patch) THEN "skipped"
    ELSE IF r.threw THEN "threw"
    ELSE IF r.total_replacements = 0 THEN "no_replacement"
    ELSE IF CompileThrows(ResolvePlaceholders(r.code, patch.registrar_name)) THEN "threw"
    ELSE "applied"

\* One pass of the body of "for (let i = 0; i < this.patches.length; i++)":
\* cur is {current_factory, current_factory_str, any_patches_applied} with
\* the steps taken so far and the current_factory after each of them; the
\* result is cur after the patch at index i.
PatchOnce(cur, module_id, attempt, i) ==
    LET patch == patch_objects[patches[i]]
        steps == Append(cur.steps, PatchStep(cur.factory_str, patch))
        patch_result ==
            _apply_patch(cur.factory, cur.factory_str, patch.replacements,
                         CompiledId(module_id, attempt, i), patch.registrar_name)
    IN  IF ~_check_pattern_match(cur.factory_str, patch)
        THEN [cur EXCEPT !.steps = steps, !.after = Append(@, cur.factory)]
        ELSE IF patch_result.factory.id # cur.factory.id
        THEN [factory |-> patch_result.factory,
              factory_str |-> patch_result.factory_str,
              any_patches_applied |-> TRUE,
              steps |-> steps,
              after |-> Append(cur.after, patch_result.factory)]
        ELSE [cur EXCEPT !.steps = steps, !.after = Append(@, cur.factory)]

\* a variant in which every patch sees the text the loop started with
RECURSIVE PatchLoopOnOriginalText(_, _, _, _)
PatchLoopOnOriginalText(cur, module_id, attempt, i) ==
    IF i > Len(patches) THEN cur
    ELSE PatchLoopOnOriginalText(
             [PatchOnce(cur, module_id, attempt, i) EXCEPT
                 !.factory_str = cur.factory_str],
             module_id, attempt, i + 1)

\* a variant that leaves out the patch registered last
RECURSIVE PatchLoopWithoutLastPatch(_, _, _, _)
PatchLoopWithoutLastPatch(cur, module_id, attempt, i) ==
    IF i >= Len(patches) THEN cur
    ELSE PatchLoopWithoutLastPatch(PatchOnce(cur, module_id, attempt, i),
                                   module_id, attempt, i + 1)

\* the loop over this.patches, from index i on
RECURSIVE PatchLoop(_, _, _, _)
PatchLoop(cur, module_id, attempt, i) ==
    IF i > Len(patches) THEN cur
    ELSE PatchLoop(PatchOnce(cur, module_id, attempt, i), module_id, attempt, i + 1)

\* a variant that gives up every patch when one pass failed
SetOriginalUnlessAPassFailed(done, factory) ==
    IF \E k \in 1..Len(done.steps) : done.steps[k] \in {"threw", "no_replacement"}
    THEN [factory |-> factory, any_patches_applied |-> FALSE,
          steps |-> done.steps, after |-> done.after]
    ELSE [factory |-> IF done.any_patches_applied
                      THEN [done.factory EXCEPT !.orig = factory.id]
                      ELSE done.factory,
          any_patches_applied |-> done.any_patches_applied,
          steps |-> done.steps,
          after |-> done.after]

\* a variant without the any_patches_applied test
SetOriginalUnconditionally(done, factory) ==
    [factory |-> [done.factory EXCEPT !.orig = factory.id],
     any_patches_applied |-> TRUE,
     steps |-> done.steps,
     after |-> done.after]

\* "if (any_patches_applied)": the patched factory gets SYM_ORIGINAL_FACTORY
SetOriginal(done, factory) ==
    [factory |-> IF done.any_patches_applied
                 THEN [done.factory EXCEPT !.orig = factory.id]
                 ELSE done.factory,
     any_patches_applied |-> done.any_patches_applied,
     steps |-> done.steps,
     after |-> done.after]

\* the factory _get_or_patch_factory ends with, whether any patch changed
\* it, and the steps of the loop
PatchedFactoryFrom(module_id, factory, factory_str) ==
    SetOriginal(PatchLoop([factory |-> factory,
                           factory_str |-> factory_str,
                           any_patches_applied |-> FALSE,
                           steps |-> <<>>,
                           after |-> <<>>],
                          module_id, attempts[module_id] + 1, 1),
                factory)

\* the same, from "const factory_str = this._get_factory_string(module_id,
\* factory)" on
PatchedFactory(module_id, factory) ==
    PatchedFactoryFrom(module_id, factory, _get_factory_string(module_id, factory))

\* a variant that marks a module only when a patch was applied to it
MarkPatchedWhenApplied(module_id, any_patches_applied) ==
    IF any_patches_applied THEN patched_modules \cup {module_id} ELSE patched_modules

\* this.patched_modules.add(module_id), the last statement before the return
MarkPatched(module_id, any_patches_applied) == patched_modules \cup {module_id}

\* the function the apply trap of a factory proxy calls:
\* _get_or_patch_factory(module_id, factory_target)
_get_or_patch_factory(module_id, factory_target) ==
    IF ReturnsFactoryAsIs(module_id, factory_target) THEN factory_target
    ELSE PatchedFactory(module_id, factory_target).factory

\* The apply trap of a factory proxy: _get_or_patch_factory(module_id,
\* factory_target) with its effects, then the call of the factory it returns.
InvokeProxy(module_id, factory_target) ==
    \E result \in {PatchedFactory(module_id, factory_target)},
       patched_factory \in {_get_or_patch_factory(module_id, factory_target)},
       st \in {_emit_event(Dispatch(delivered), "module_patched", <<module_id>>)} :
        /\ IF ReturnsFactoryAsIs(module_id, factory_target)
           THEN /\ later_call' = [later_call EXCEPT ![module_id] =
                                     [target |-> factory_target,
                                      ran |-> patched_factory]]
                /\ UNCHANGED <<patched_modules, module_factories,
                               factory_string_cache, attempts, emitted, first_call,
                               delivered, propagated>>
           ELSE /\ attempts' = [attempts EXCEPT ![module_id] = Bump(@)]
                /\ factory_string_cache' =
                      IF cache_enabled
                      THEN [factory_string_cache EXCEPT ![module_id] =
                                _get_factory_string(module_id, factory_target)]
                      ELSE factory_string_cache
                /\ module_factories' =
                      IF result.any_patches_applied
                      THEN [module_factories EXCEPT ![module_id] =
                                Function(result.factory)]
                      ELSE module_factories
                /\ emitted' =
                      IF result.any_patches_applied
                      THEN Append(emitted,
                                  [module_id |-> module_id,
                                   patched_factory |-> result.factory,
                                   original_factory |-> factory_target,
                                   marked |-> module_id \in patched_modules,
                                   entry |-> module_factories'[module_id]])
                      ELSE emitted
                /\ delivered' = IF result.any_patches_applied
                                THEN st.delivered ELSE delivered
                /\ propagated' = IF result.any_patches_applied
                                 THEN st.propagated ELSE propagated
                /\ patched_modules' = MarkPatched(module_id, result.any_patches_applied)
                /\ first_call' = [first_call EXCEPT ![module_id] =
                                     [target |-> factory_target,
                                      steps |-> result.steps,
                                      after |-> result.after,
                                      result |-> patched_factory]]
                /\ UNCHANGED later_call
        /\ UNCHANGED <<patch_objects, patches, Registrars, webpack_detected,
                       cache_enabled, proxies, assigned, register_calls, returned>>
        /\ UNCHANGED <<registrar_vars, event_listeners, listener_calls, detector_vars>>

\* The host runtime calls the entry of its collection.  A plain function
\* entry (a stored patched factory) runs without the engine.
InvokeEntry(module_id) ==
    LET entry == module_factories[module_id] IN
    /\ webpack_detected
    /\ entry # Absent
    /\ IF entry.kind = "proxy"
       THEN InvokeProxy(module_id, entry.f)
       ELSE UNCHANGED vars

HostRequires == \E module_id \in ModuleIds : InvokeEntry(module_id)

\* the properties consumer code reads on a function or on a factory proxy
FactoryProps ==
    {"toString", "SYM_ORIGINAL_FACTORY", "SYM_PROXY_INNER_GET", "SYM_PROXY_INNER_VALUE"}

\* the value of factory[SYM_ORIGINAL_FACTORY]: the function whose identity
\* _get_or_patch_factory recorded, NoFactory for undefined
OriginalFactoryOf(factory) ==
    IF factory.orig = NoId THEN NoFactory
    ELSE CHOOSE g \in {p.target : p \in proxies} \cup {NoFactory} :
             g.id = factory.orig \/ (g = NoFactory /\ \A p \in proxies : p.target.id # factory.orig)

\* factory[prop] for a plain function: toString gives a function returning
\* its text, the two proxy symbols are undefined
FunctionGet(factory, prop) ==
    CASE prop = "toString" -> [text |-> factory.text]
      [] prop = "SYM_ORIGINAL_FACTORY" -> [factory |-> OriginalFactoryOf(factory)]
      [] OTHER -> [undefined |-> TRUE]

\* WebpackPatcher._handle_factory_get, the get trap of a factory proxy
_handle_factory_get(factory_target, prop) ==
    LET actual_factory == IF factory_target.orig # NoId
                          THEN OriginalFactoryOf(factory_target)
                          ELSE factory_target
    IN  CASE prop = "SYM_PROXY_INNER_GET" -> [true |-> TRUE]
          [] prop = "SYM_PROXY_INNER_VALUE" -> [factory |-> factory_target]
          [] prop = "toString" -> [text |-> actual_factory.text]
          [] OTHER -> FunctionGet(actual_factory, prop)

\* Code that kept a reference to a factory proxy calls it after the
\* collection entry has changed.
InvokeHeldProxy ==
    \E p \in proxies :
        /\ module_factories[p.module_id] # Proxy(p.target)
        /\ InvokeProxy(p.module_id, p.target)

\* ------------------------------------------------- the array-push patcher

\* the state of the second script, which the first script never touches
second_script_vars ==
    <<patch_objects, patches, Registrars, patched_modules, module_factories,
      webpack_detected, cache_enabled, factory_string_cache, proxies, assigned,
      register_calls, returned, attempts, emitted, first_call, later_call,
      registrar_vars, bus_vars, webpack_require, detected_collection, written,
      observed, modules_slot, cache_slot, webpack_cache, cache_detected,
      on_detect, filter_func>>

\* _get_cached_function_string(func, module_id, method_name) for a function
\* whose toString() is text
_get_cached_function_string(cache, text, module_id, method_name) ==
    IF cache[module_id][method_name].has
    THEN cache[module_id][method_name].str
    ELSE text

\* does_method_match with a string identifier
does_method_match(cache, text, identifier, module_id, method_name) ==
    Includes(_get_cached_function_string(cache, text, module_id, method_name),
             identifier)

\* identifiers.every(identifier => this.does_method_match(...))
EveryIdentifierMatches(cache, method, config, module_id) ==
    \A k \in 1..Len(config.identifiers) :
        does_method_match(cache, method.text, config.identifiers[k],
                          module_id, method.name)

\* the least member of a set of indices, or 0
FirstIndex(S) == IF S = {} THEN 0 ELSE CHOOSE k \in S : \A j \in S : k <= j

\* methods.find(...): the index of the first matching configuration, or 0
FindMatchingMethod(cache, method, methods, module_id) ==
    FirstIndex({k \in 1..Len(methods) :
                  EveryIdentifierMatches(cache, method, methods[k], module_id)})

\* the end of patch_method_with_regexp_or_raw_string, r being the outcome
\* of its rule loop on original_code: it returns original_method when
\* nothing was replaced and from its catch block, else the function
\* compiled from the patched code, whose text it leaves in the cache
PatchedMethod(original_method, original_code, r) ==
    IF r.threw \/ r.total_replacements = 0 \/ CompileThrows(r.code)
    THEN [method |-> original_method, str |-> original_code]
    ELSE [method |-> [original_method EXCEPT !.text = r.code], str |-> r.code]

\* patch_method_with_regexp_or_raw_string from the text it looked up
PatchCode(original_method, original_code, matches_and_replacements) ==
    PatchedMethod(original_method, original_code,
                  ApplyRules(original_code, matches_and_replacements, 1, 0))

\* patch_method_with_regexp_or_raw_string: the method it returns and the
\* text it leaves in the cache
patch_method_with_regexp_or_raw_string(cache, original_method, matches_and_replacements, module_id) ==
    PatchCode(original_method,
              _get_cached_function_string(cache, original_method.text,
                                          module_id, original_method.name),
              matches_and_replacements)

\* the loop state of patch_module after an entry whose text was looked up
\* and left as str in the cache
AfterEntry(cache, entries, i, patched_count, module_id, str, method) ==
    [done |-> FALSE,
     cache |-> [cache EXCEPT ![module_id][entries[i].name] = CachedString(str)],
     entries |-> [entries EXCEPT ![i] = method],
     patched_count |-> patched_count]

\* "module_exports[name] = patched_method; patched_count++", p being what
\* patch_method_with_regexp_or_raw_string returned
AfterPatchedEntry(cache, entries, i, patched_count, module_id, p) ==
    AfterEntry(cache, entries, i, patched_count + 1, module_id, p.str, p.method)

\* the body of the loop for a function entry, k being the index of the
\* matching configuration or 0
MatchedEntry(cache, entries, i, patched_count, module_id, methods, k) ==
    IF k = 0
    THEN AfterEntry(cache, entries, i, patched_count, module_id,
                    _get_cached_function_string(cache, entries[i].text,
                                                module_id, entries[i].name),
                    entries[i])
    ELSE AfterPatchedEntry(cache, entries, i, patched_count, module_id,
            patch_method_with_regexp_or_raw_string(
                cache, entries[i], methods[k].matches_and_replacements,
                module_id))

\* One pass of the loop of patch_module over Object.entries(module_exports)
\* at entry i: done tells that the loop ended or reached its break.  A
\* lookup of the method's text happens when methods is not empty (every
\* configuration that does not match has an identifier that was tested,
\* and a matching one is patched), and leaves the text in the cache.
PatchEntry(cache, entries, i, patched_count, module_id, methods, limit) ==
    IF i > Len(entries) \/ (entries[i].fn /\ patched_count >= limit)
    THEN [done |-> TRUE, cache |-> cache, entries |-> entries,
          patched_count |-> patched_count]
    ELSE IF ~entries[i].fn \/ Len(methods) = 0
    THEN [done |-> FALSE, cache |-> cache, entries |-> entries,
          patched_count |-> patched_count]
    ELSE MatchedEntry(cache, entries, i, patched_count, module_id, methods,
                      FindMatchingMethod(cache, entries[i], methods, module_id))

\* the loop from the state r of its pass at entry i
RECURSIVE PatchEntriesFrom(_, _, _, _, _)
PatchEntriesFrom(r, i, module_id, methods, limit) ==
    IF r.done THEN r
    ELSE PatchEntriesFrom(PatchEntry(r.cache, r.entries, i + 1, r.patched_count,
                                     module_id, methods, limit),
                          i + 1, module_id, methods, limit)

\* the loop of patch_module; limit is
\* patch_targets.get(module_id).length - current_patch_count
PatchEntries(cache, entries, module_id, methods, limit) ==
    PatchEntriesFrom(PatchEntry(cache, entries, 1, 0, module_id, methods, limit),
                     1, module_id, methods, limit)

\* the fields of the patcher that patch_module reads and writes
LegacyPatcher ==
    [patch_targets |-> patch_targets,
     patched_modules |-> legacy_patched_modules,
     patch_counts |-> patch_counts,
     cache |-> _function_string_cache]

\* "if (patched_count > 0)" of patch_module, count being
\* current_patch_count + patched_count
CountPatches(p, module_id, count, cache) ==
    [patch_targets |->
        IF count >= Len(p.patch_targets[module_id].methods)
        THEN [p.patch_targets EXCEPT ![module_id] = NoTarget]
        ELSE p.patch_targets,
     patched_modules |-> p.patched_modules \cup {module_id},
     patch_counts |-> [p.patch_counts EXCEPT ![module_id] = count],
     cache |-> cache]

\* the patcher and the module after the loop of patch_module ended in r
AfterLoop(p, module, module_id, r) ==
    [p |-> IF r.patched_count > 0
           THEN CountPatches(p, module_id,
                             p.patch_counts[module_id] + r.patched_count, r.cache)
           ELSE [p EXCEPT !.cache = r.cache],
     module |-> [module EXCEPT !.entries = r.entries]]

\* patch_module(module, module_id, methods) on the patcher p: the patcher
\* and the module afterwards.  Object.entries(null) throws inside the try
\* block, and the catch block returns false.
patch_module(p, module, module_id, methods) ==
    IF ~module.has_exports
    THEN [p |-> p, module |-> module]
    ELSE AfterLoop(p, module, module_id,
            PatchEntries(p.cache, module.entries, module_id, methods,
                         Len(p.patch_targets[module_id].methods)
                           - p.patch_counts[module_id]))

\* the test of the hooked push for one module id of a pushed chunk
IsAttempted(p, module_id) ==
    /\ module_id \in LegacyModuleIds
    /\ p.patch_targets[module_id].has
    /\ module_id \notin p.patched_modules

\* the hook after "self.patch_module(module, module_id, patch_methods)"
\* returned r: st holds the patcher, the module and the attempts made
Attempted(st, module_id, r) ==
    [p |-> r.p, module |-> r.module,
     attempted |-> Append(st.attempted,
        [module_id |-> module_id, ref |-> st.module.ref,
         target |-> st.p.patch_targets[module_id].has,
         patched |-> module_id \in st.p.patched_modules,
         length |-> Len(global_obj)])]

\* the body of "for (const module_id of module_ids)" in the hooked push
HookId(st, module_id) ==
    IF IsAttempted(st.p, module_id)
    THEN Attempted(st, module_id,
                   patch_module(st.p, st.module, module_id,
                                st.p.patch_targets[module_id].methods))
    ELSE st

\* "for (const module_id of module_ids)", from index j
RECURSIVE HookIds(_, _)
HookIds(st, j) ==
    IF j > Len(st.module.ids) THEN st
    ELSE HookIds(HookId(st, st.module.ids[j]), j + 1)

\* the hook after the ids of argument a have been gone through
AfterIds(st, a, r) ==
    [p |-> r.p, args |-> [st.args EXCEPT ![a] = r.module],
     attempted |-> r.attempted, threw |-> FALSE]

\* the body of "for (const module of args)" in the hooked push: iterating
\* an element 0 that is not iterable throws a TypeError out of the hook
HookArg(st, a) ==
    IF st.args[a].kind # "chunk" THEN st
    ELSE IF ~st.args[a].iterable THEN [st EXCEPT !.threw = TRUE]
    ELSE AfterIds(st, a, HookIds([p |-> st.p, module |-> st.args[a],
                                  attempted |-> st.attempted], 1))

\* "for (const module of args)", from index a
RECURSIVE HookArgs(_, _)
HookArgs(st, a) ==
    IF a > Len(st.args) \/ st.threw THEN st
    ELSE HookArgs(HookArg(st, a), a + 1)

\* original_push.apply(this, args) with Array.prototype.push: it appends
\* the arguments and returns the new length
original_push(array, args) ==
    [array |-> array \o args, result |-> Len(array) + Len(args)]

\* the arguments the hook passes to original_push
Forwarded(args) == args

\* a call of push on the chunk array with fresh objects as arguments: the
\* hooked function once register_patch has installed it, else the
\* original
Push(given) ==
    /\ Len(pushes) < MaxPushes
    /\ \E args \in {[k \in 1..Len(given) |->
                        [given[k] EXCEPT !.ref = <<Len(pushes) + 1, k>>]]} :
       \E st \in {HookArgs([p |-> LegacyPatcher, args |-> args,
                            attempted |-> <<>>, threw |-> FALSE], 1)} :
       \E out \in {original_push(global_obj,
                                 IF hooked THEN Forwarded(st.args) ELSE args)} :
           IF hooked
           THEN /\ patch_targets' = st.p.patch_targets
                /\ legacy_patched_modules' = st.p.patched_modules
                /\ patch_counts' = st.p.patch_counts
                /\ _function_string_cache' = st.p.cache
                /\ global_obj' = IF st.threw THEN global_obj ELSE out.array
                /\ pushes' = Append(pushes,
                      [given |-> args, hooked |-> TRUE, threw |-> st.threw,
                       attempted |-> st.attempted,
                       forwarded |-> IF st.threw THEN <<>> ELSE Forwarded(st.args),
                       called |-> ~st.threw,
                       result |-> IF st.threw THEN 0 ELSE out.result,
                       returned |-> IF st.threw THEN 0 ELSE out.result])
           ELSE /\ global_obj' = out.array
                /\ pushes' = Append(pushes,
                      [given |-> args, hooked |-> FALSE, threw |-> FALSE,
                       attempted |-> <<>>, forwarded |-> args, called |-> TRUE,
                       result |-> out.result, returned |-> out.result])
                /\ UNCHANGED <<patch_targets, legacy_patched_modules,
                               patch_counts, _function_string_cache>>
    /\ UNCHANGED <<hooked, _module_cache, legacy_registered, window_slot,
                   webpack_found, detect_called, timers, callback_calls,
                   slot_writes, second_script_vars>>

HostPushes == \E given \in PushedArgs : Push(given)

\* "e[0].some(...)" throws a TypeError when e[0] has no method some
SomeThrows(e) == e.kind = "other" \/ (e.kind = "chunk" /\ ~e.iterable)

\* e[0].some(mod_id => mod_id == id)
HasId(e, id) == e.kind = "chunk" /\ \E j \in 1..Len(e.ids) : e.ids[j] = id

\* get_module(id): the index in global_obj of the chunk it returns (0 for
\* null), or that it threw
get_module(id) ==
    IF _module_cache[id] # 0
    THEN [threw |-> FALSE, index |-> _module_cache[id]]
    ELSE IF \E n \in 1..Len(global_obj) :
               /\ SomeThrows(global_obj[n]) \/ HasId(global_obj[n], id)
               /\ \A k \in 1..(n - 1) :
                     ~SomeThrows(global_obj[k]) /\ ~HasId(global_obj[k], id)
    THEN LET n == CHOOSE n \in 1..Len(global_obj) :
                    /\ SomeThrows(global_obj[n]) \/ HasId(global_obj[n], id)
                    /\ \A k \in 1..(n - 1) :
                          ~SomeThrows(global_obj[k]) /\ ~HasId(global_obj[k], id)
         IN  [threw |-> SomeThrows(global_obj[n]), index |-> n]
    ELSE [threw |-> FALSE, index |-> 0]

\* register_patch(module_id, methods)
register_patch(module_id, methods) ==
    /\ Len(legacy_registered) < MaxLegacyRegister
    /\ \E merged \in
             {[patch_targets |->
                  [patch_targets EXCEPT ![module_id] =
                      Target(patch_targets[module_id].methods \o methods)],
               patched_modules |-> legacy_patched_modules,
               patch_counts |->
                  IF patch_targets[module_id].has THEN patch_counts
                  ELSE [patch_counts EXCEPT ![module_id] = 0],
               cache |-> _function_string_cache]} :
       \E existing_module \in {get_module(module_id)} :
           /\ legacy_registered' = Append(legacy_registered,
                 [module_id |-> module_id, methods |-> methods,
                  threw |-> existing_module.threw])
           /\ IF existing_module.threw
              THEN /\ patch_targets' = merged.patch_targets
                   /\ patch_counts' = merged.patch_counts
                   /\ UNCHANGED <<legacy_patched_modules, _function_string_cache,
                                  global_obj, _module_cache, hooked>>
              ELSE IF existing_module.index # 0 /\ Len(methods) > 0
              THEN \E r \in {patch_module(merged, global_obj[existing_module.index],
                                            module_id, methods)} :
                       /\ patch_targets' = r.p.patch_targets
                       /\ legacy_patched_modules' = r.p.patched_modules
                       /\ patch_counts' = r.p.patch_counts
                       /\ _function_string_cache' = r.p.cache
                       /\ global_obj' = [global_obj EXCEPT
                                            ![existing_module.index] = r.module]
                       /\ _module_cache' = [_module_cache EXCEPT
                                               ![module_id] = existing_module.index]
                       /\ hooked' = TRUE
              ELSE /\ patch_targets' = merged.patch_targets
                   /\ patch_counts' = merged.patch_counts
                   /\ _module_cache' = [_module_cache EXCEPT
                                           ![module_id] = existing_module.index]
                   /\ hooked' = TRUE
                   /\ UNCHANGED <<legacy_patched_modules, _function_string_cache,
                                  global_obj>>
    /\ UNCHANGED <<pushes, window_slot, webpack_found, detect_called, timers,
                   callback_calls, slot_writes, second_script_vars>>

RegistersLegacy == \E module_id \in LegacyModuleIds, methods \in MethodLists :
    register_patch(module_id, methods)

\* the values the page assigns to window[global_obj_key]: 0 is a falsy
\* value, 1 and 2 are chunk arrays
SlotValues == {0, 1, 2}

\* "if (window[global_obj_key])": a data property with a truthy value (the
\* accessor has no getter and reads as undefined)
SlotIsTruthy == window_slot.kind = "data" /\ window_slot.value # 0

\* the callback WebpackPatcher.initialize passes: it constructs the patcher
\* and resolves the promise; sync tells whether detect_and_hook_webpack was
\* still running, slot is the property as the callback finds it
CallCallback(sync) ==
    callback_calls' = Append(callback_calls, [sync |-> sync, slot |-> window_slot])

\* WebpackPatcher.detect_and_hook_webpack(global_obj_key, callback), which
\* initialize calls once when the script starts
detect_and_hook_webpack ==
    /\ ~detect_called
    /\ detect_called' = TRUE
    /\ IF SlotIsTruthy
       THEN /\ CallCallback(TRUE)
            /\ UNCHANGED window_slot
       ELSE /\ window_slot' = AccessorSlot
            /\ UNCHANGED callback_calls
    /\ UNCHANGED <<webpack_found, timers, slot_writes, legacy_patcher_vars,
                   second_script_vars>>

\* The page assigns value to window[global_obj_key].  While the accessor
\* is on window its setter runs: the first time it redefines the property
\* as a writable data property holding value and passes the callback to
\* setTimeout.  Otherwise the assignment is a plain write.
AssignGlobal(value) ==
    /\ Len(slot_writes) < MaxSlotWrites
    /\ slot_writes' = Append(slot_writes, value)
    /\ IF window_slot.kind = "accessor"
       THEN IF ~webpack_found
            THEN /\ webpack_found' = TRUE
                 /\ window_slot' = DataSlot(value)
                 /\ timers' = timers + 1
            ELSE UNCHANGED <<webpack_found, window_slot, timers>>
       ELSE /\ window_slot' = [kind |-> "data", value |-> value]
            /\ UNCHANGED <<webpack_found, timers>>
    /\ UNCHANGED <<detect_called, callback_calls, legacy_patcher_vars,
                   second_script_vars>>

HostAssignsGlobal == \E value \in SlotValues : AssignGlobal(value)

\* a timer set by "setTimeout(callback, 0)" fires in a later task
TimerFires ==
    /\ timers > 0
    /\ timers' = timers - 1
    /\ CallCallback(FALSE)
    /\ UNCHANGED <<window_slot, webpack_found, detect_called, slot_writes,
                   legacy_patcher_vars, second_script_vars>>

\* --------------------------------------------------- WebpackPatchRegistrar

\* the patcher instances set_patcher may be called with
Patchers == {1, 2}

\* a variant that takes this.patcher for null at every call
PatcherNeverSet == FALSE

\* "if (this.patcher)"
PatcherIsSet == patcher # 0

\* the events and callbacks passed to the registrar
RegistrarEvents == {"webpack_detected", "module_registered"}

\* calls made on the registrar so far
RegistrarCalls == Len(handles) + listener_calls + Len(attach_calls)

\* a call of register_patches on patcher p, as the patcher receives it
RegisterCall(p, options, list, existing_registrar) ==
    [patcher |-> p, op |-> "register_patches", options |-> options, list |-> list,
     registrar |-> existing_registrar, event |-> "", callback |-> 0]

\* a call of add_event_listener or remove_event_listener on patcher p
ListenerCall(p, op, event, callback) ==
    [patcher |-> p, op |-> op,
     options |-> [name |-> "", data |-> 0, functions |-> 0], list |-> <<>>,
     registrar |-> NoRegistrar, event |-> event, callback |-> callback]

\* a variant that replays the buffered register calls last to first
RECURSIVE ReplayPatchesBackwards(_, _, _)
ReplayPatchesBackwards(fl, buffer, i) ==
    IF i > Len(buffer) THEN fl
    ELSE [ReplayPatchesBackwards(fl, buffer, i + 1) EXCEPT
            !.eng = RegisterOn(@, buffer[i].options, buffer[i].patches,
                               buffer[i].registrar, 0),
            !.calls = Append(@, RegisterCall(fl.patcher, buffer[i].options,
                                             buffer[i].patches,
                                             buffer[i].registrar))]

\* "for (const buffered of this.patch_buffer)
\*      this.patcher.register_patches(buffered.options, buffered.patches,
\*                                    buffered.registrar)", from index i on;
\* fl is the patcher's registrations and listeners and the calls made on it.
\* register_patches throws "Registrar name is required" for options without
\* a name, and nothing in the loop catches it.
RECURSIVE ReplayPatches(_, _, _)
ReplayPatches(fl, buffer, i) ==
    IF i > Len(buffer) THEN fl
    ELSE IF buffer[i].options.name = ""
    THEN [fl EXCEPT
            !.threw = TRUE,
            !.replayed = i - 1,
            !.calls = Append(@, RegisterCall(fl.patcher, buffer[i].options,
                                             buffer[i].patches,
                                             buffer[i].registrar))]
    ELSE ReplayPatches(
            [fl EXCEPT
                !.eng = RegisterOn(@, buffer[i].options, buffer[i].patches,
                                   buffer[i].registrar, 0),
                !.calls = Append(@, RegisterCall(fl.patcher, buffer[i].options,
                                                 buffer[i].patches,
                                                 buffer[i].registrar))],
            buffer, i + 1)

\* "for (const buffered of this.event_listener_buffer)
\*      this.patcher.add_event_listener(buffered.event, buffered.callback)"
RECURSIVE ReplayListeners(_, _, _)
ReplayListeners(fl, buffer, i) ==
    IF i > Len(buffer) THEN fl
    ELSE ReplayListeners(
            [fl EXCEPT
                !.listeners = add_event_listener(@, buffer[i].event,
                                                 buffer[i].callback),
                !.calls = Append(@, ListenerCall(fl.patcher, "add_event_listener",
                                                 buffer[i].event,
                                                 buffer[i].callback))],
            buffer, i + 1)

\* the second loop of _flush_buffers, which an exception of the first skips
ListenersUnlessThrown(fl) ==
    IF fl.threw THEN fl ELSE ReplayListeners(fl, event_listener_buffer, 1)

\* a variant that replays the subscriptions before the register calls
_flush_buffers_listeners_first(fl) ==
    ReplayPatches(ReplayListeners(fl, event_listener_buffer, 1), patch_buffer, 1)

\* WebpackPatchRegistrar._flush_buffers: is_flushing is false whenever it is
\* called, as set_patcher is its only caller and nothing it calls re-enters
_flush_buffers(fl) ==
    ListenersUnlessThrown(ReplayPatches(fl, patch_buffer, 1))

\* the last register call a patcher has served, after a flush
LastReplayed(Regs, replayed) ==
    IF replayed = 0 THEN returned
    ELSE LET last == patch_buffer[replayed]
         IN  [options |-> last.options, list |-> last.patches,
              registrar |-> Regs[last.options.name]]

\* WebpackPatchRegistrar.set_patcher(p)
set_patcher(p) ==
    /\ Len(attach_calls) < MaxAttach
    /\ RegistrarCalls < MaxCalls
    /\ attach_calls' = Append(attach_calls, p)
    /\ IF PatcherIsSet
       THEN UNCHANGED <<patcher, patch_buffer, event_listener_buffer, engine_calls,
                        Registrars, patch_objects, patches, event_listeners,
                        register_calls, returned, propagated>>
       ELSE \E fl \in {_flush_buffers(
                          [eng |-> [Registrars |-> Registrars, objs |-> patch_objects,
                                    ps |-> patches],
                           listeners |-> event_listeners,
                           calls |-> engine_calls,
                           patcher |-> p,
                           threw |-> FALSE,
                           replayed |-> Len(patch_buffer)])} :
               /\ patcher' = p
               /\ patch_buffer' = IF fl.threw THEN patch_buffer ELSE <<>>
               /\ event_listener_buffer' =
                     IF fl.threw THEN event_listener_buffer ELSE <<>>
               /\ propagated' = (propagated \/ fl.threw)
               /\ engine_calls' = fl.calls
               /\ Registrars' = fl.eng.Registrars
               /\ patch_objects' = fl.eng.objs
               /\ patches' = fl.eng.ps
               /\ event_listeners' = fl.listeners
               /\ register_calls' = register_calls + fl.replayed
               /\ returned' = LastReplayed(fl.eng.Registrars, fl.replayed)
    /\ UNCHANGED <<patched_modules, module_factories, webpack_detected,
                   cache_enabled, factory_string_cache, proxies, assigned,
                   attempts, emitted, first_call, later_call>>
    /\ UNCHANGED <<handles, subscribed, delivered, listener_calls, detector_vars>>

\* WebpackPatchRegistrar.register_patches(options, patches)
Registrar_register_patches(options, list) ==
    /\ Len(handles) < MaxRegister
    /\ RegistrarCalls < MaxCalls
    /\ IF PatcherIsSet
       THEN /\ register_patches(options, list)
            /\ engine_calls' = Append(engine_calls,
                                      RegisterCall(patcher, options, list, NoRegistrar))
            /\ handles' = Append(handles, returned')
            /\ UNCHANGED <<patcher, patch_buffer, event_listener_buffer>>
       ELSE \E registrar_obj \in {NewRegistrar(Len(handles) + 1, options)} :
               /\ patch_buffer' = Append(patch_buffer,
                                         [options |-> options, patches |-> list,
                                          registrar |-> registrar_obj])
               /\ handles' = Append(handles,
                                    [options |-> options, list |-> list,
                                     registrar |-> registrar_obj])
               /\ UNCHANGED <<patcher, event_listener_buffer, engine_calls>>
               /\ UNCHANGED <<patch_objects, patches, Registrars, patched_modules,
                              module_factories, webpack_detected, cache_enabled,
                              factory_string_cache, proxies, assigned,
                              register_calls, returned, attempts, emitted,
                              first_call, later_call, bus_vars, detector_vars>>
    /\ UNCHANGED <<subscribed, attach_calls>>

\* WebpackPatchRegistrar.add_event_listener(event, callback)
Registrar_add_event_listener(event, callback) ==
    /\ listener_calls < MaxListen
    /\ RegistrarCalls < MaxCalls
    /\ listener_calls' = listener_calls + 1
    /\ subscribed' = add_event_listener(subscribed, event, callback)
    /\ IF PatcherIsSet
       THEN /\ event_listeners' = add_event_listener(event_listeners, event, callback)
            /\ engine_calls' = Append(engine_calls,
                                      ListenerCall(patcher, "add_event_listener",
                                                   event, callback))
            /\ UNCHANGED event_listener_buffer
       ELSE /\ event_listener_buffer' = Append(event_listener_buffer,
                                               [event |-> event, callback |-> callback])
            /\ UNCHANGED <<event_listeners, engine_calls>>
    /\ UNCHANGED <<patch_objects, patches, Registrars, patched_modules,
                   module_factories, webpack_detected, cache_enabled,
                   factory_string_cache, proxies, assigned, register_calls,
                   returned, attempts, emitted, first_call, later_call>>
    /\ UNCHANGED <<patcher, patch_buffer, handles, attach_calls, delivered,
                   propagated, detector_vars>>

\* WebpackPatchRegistrar.remove_event_listener(event, callback)
Registrar_remove_event_listener(event, callback) ==
    /\ listener_calls < MaxListen
    /\ RegistrarCalls < MaxCalls
    /\ listener_calls' = listener_calls + 1
    /\ subscribed' = remove_event_listener(subscribed, event, callback)
    /\ IF PatcherIsSet
       THEN /\ event_listeners' = remove_event_listener(event_listeners, event,
                                                        callback)
            /\ engine_calls' = Append(engine_calls,
                                      ListenerCall(patcher, "remove_event_listener",
                                                   event, callback))
       ELSE UNCHANGED <<event_listeners, engine_calls>>
    /\ UNCHANGED <<patch_objects, patches, Registrars, patched_modules,
                   module_factories, webpack_detected, cache_enabled,
                   factory_string_cache, proxies, assigned, register_calls,
                   returned, attempts, emitted, first_call, later_call>>
    /\ UNCHANGED <<patcher, patch_buffer, event_listener_buffer, handles,
                   attach_calls, delivered, propagated, detector_vars>>

\* a consumer script calls window.WebpackPatcher.register
RegistrarRegisters == \E list \in PatchLists :
    Registrar_register_patches(
        [name |-> PatchOwner[list[1]], data |-> 0, functions |-> 0], list)

\* A consumer script calls window.WebpackPatcher.register with options that
\* have no name: with a patcher the call throws to the script before it
\* changes anything, without one it is buffered like any other.
RegistrarRegistersNameless == \E list \in PatchLists :
    IF PatcherIsSet THEN UNCHANGED vars
    ELSE Registrar_register_patches([name |-> "", data |-> 0, functions |-> 0], list)

\* a consumer script calls window.WebpackPatcher.addEventListener
RegistrarSubscribes == \E event \in RegistrarEvents, callback \in Callbacks :
    Registrar_add_event_listener(event, callback)

\* a consumer script calls window.WebpackPatcher.removeEventListener
RegistrarUnsubscribes == \E event \in RegistrarEvents, callback \in Callbacks :
    Registrar_remove_event_listener(event, callback)

\* set_patcher is called with some patcher
Attach == \E p \in Patchers : set_patcher(p)

Next ==
    \/ Register
    \/ DetectWebpack
    \/ HostAssigns
    \/ HostRequires
    \/ InvokeHeldProxy

Spec == Init /\ [][Next]_vars

\* The consumer scripts alone: register calls with any name and any data and
\* functions objects.
NextRegister == RegisterWithOptions

SpecRegister == Init /\ [][NextRegister]_vars

\* a page whose consumer script holds one patch with any replacement rules
InitRules ==
    /\ \E rules \in RuleLists : InitEngine(PatchObjectsWith(rules), RuleTexts)
    /\ InitRegistrar
    /\ patcher = 1
    /\ on_detect = "none"
    /\ filter_func = "none"

\* the consumer script registers its patch, once
RegisterRules ==
    /\ register_calls = 0
    /\ register_patches([name |-> "A", data |-> 0, functions |-> 0], <<1>>)
    /\ UNCHANGED registrar_vars

\* One patch with any rules: it is registered, webpack is detected and the
\* host invokes its modules.
NextRules ==
    \/ RegisterRules
    \/ DetectWebpack
    \/ HostRequires

SpecRules == InitRules /\ [][NextRules]_vars

\* a page whose consumer scripts hold patches with any of the finds
InitFinds ==
    /\ \E objs \in PatchObjectsWithFinds : InitEngine(objs, SourceTexts)
    /\ InitRegistrar
    /\ patcher = 1
    /\ on_detect = "none"
    /\ filter_func = "none"

\* Register calls on patches with string and array finds.
NextFinds == Register

SpecFinds == InitFinds /\ [][NextFinds]_vars

\* the WebpackPatchRegistrar constructed with no patcher
InitUnattached ==
    /\ InitPatcher
    /\ InitRegistrar
    /\ patcher = 0
    /\ on_detect = "none"
    /\ filter_func = "none"

\* The WebpackPatchRegistrar and its patcher: consumer scripts call it before
\* and after set_patcher.
NextRegistrar ==
    \/ RegistrarRegisters
    \/ RegistrarSubscribes
    \/ RegistrarUnsubscribes
    \/ Attach

SpecRegistrar == InitUnattached /\ [][NextRegistrar]_vars

\* the patcher constructed with enable_cache true or false
InitCache ==
    /\ InitEngineWith(InitialPatchObjects, SourceTexts, BOOLEAN)
    /\ InitRegistrar
    /\ patcher = 1
    /\ on_detect = "none"
    /\ filter_func = "none"

SpecCache == InitCache /\ [][Next]_vars

\* The WebpackPatchRegistrar before and at set_patcher, with consumer
\* scripts that may leave out the name of their registration.
NextReplay ==
    \/ RegistrarRegisters
    \/ RegistrarRegistersNameless
    \/ RegistrarSubscribes
    \/ Attach

SpecReplay == InitUnattached /\ [][NextReplay]_vars

\* the patcher constructed with any on_detect and filter_func options
InitDetect ==
    /\ InitPatcher
    /\ InitRegistrar
    /\ patcher = 1
    /\ on_detect \in {"none", "returns", "throws"}
    /\ filter_func \in {"none", "configured", "throws"}

\* Detection and the event listeners: consumer scripts subscribe and
\* unsubscribe while the page writes the modules slot of its function objects.
NextDetect ==
    \/ Subscribes
    \/ Unsubscribes
    \/ HostWritesModulesSlot

SpecDetect == InitDetect /\ [][NextDetect]_vars

\* the patcher constructed without on_detect and filter_func
InitEmit ==
    /\ InitPatcher
    /\ InitRegistrar
    /\ patcher = 1
    /\ on_detect = "none"
    /\ filter_func = "none"

\* Consumer scripts subscribe callbacks, some of which change the
\* subscriptions when called, and the patcher emits its events.
NextEmit ==
    \/ SubscribesAny
    \/ Emits

SpecEmit == InitEmit /\ [][NextEmit]_vars

\* The first script on its page: the page assigns the global chunk array
\* before or after the script calls detect_and_hook_webpack, and timers fire.
NextLegacyDetect ==
    \/ detect_and_hook_webpack
    \/ HostAssignsGlobal
    \/ TimerFires

\* the event loop runs every timer that setTimeout(callback, 0) set
SpecLegacyDetect ==
    Init /\ [][NextLegacyDetect]_vars /\ WF_vars(TimerFires)

\* The first script after initialize has resolved: consumer code registers
\* method patches and the page pushes onto the chunk array.
NextLegacyPatcher ==
    \/ RegistersLegacy
    \/ HostPushes

SpecLegacyPatcher == Init /\ [][NextLegacyPatcher]_vars

\* the patcher constructed with any filter_func option and no on_detect
InitSlots ==
    /\ InitPatcher
    /\ InitRegistrar
    /\ patcher = 1
    /\ on_detect = "none"
    /\ filter_func \in {"none", "configured", "throws"}

\* The page writes the modules and cache slots of its function objects and
\* writes them again.
NextSlots ==
    \/ HostWritesModulesSlot
    \/ HostWritesCacheSlot
    \/ HostAssignsOwnSlot

SpecSlots == InitSlots /\ [][NextSlots]_vars

\* ------------------------------------------------------------------ claims

\* the outcomes of the passes of a patch loop
StepsOf(call) == {call.steps[k] : k \in 1..Len(call.steps)}

\* C1: for every module id the matching/replacement attempt runs at most
\* once, and a later invocation of the factory the first attempt was made
\* for runs the result of that attempt.
C1_AtMostOnceAndReused ==
    \A m \in ModuleIds :
        /\ attempts[m] <= 1
        /\ (first_call[m] # NoCall /\ later_call[m].target = first_call[m].target)
              => later_call[m].ran = first_call[m].result

\* the half of C1 the engine keeps: no module id is attempted twice
AtMostOneAttempt == \A m \in ModuleIds : attempts[m] <= 1

\* C2: once a module is marked patched and a patch has replaced its
\* collection entry, every later invocation of its factory, one through a
\* wrapper obtained before patching included, runs the stored patched
\* factory.
C2_NoUnpatchedRunAfterPatched ==
    \A m \in ModuleIds :
        (/\ m \in patched_modules
         /\ module_factories[m].kind = "function"
         /\ module_factories[m].f.orig # NoId
         /\ later_call[m] # NoLaterCall)
            => later_call[m].ran = module_factories[m].f

FindOccurs(text, patch) ==
    \E j \in 1..Len(patch.find.items) : Includes(text, patch.find.items[j])

\* the match of a rule of the patch occurs in text
SomeRuleMatches(text, patch) ==
    \E k \in 1..Len(patch.replacements) :
        Includes(text, patch.replacements[k].match)

\* the registered patches, in the order of this.patches
Registered == [k \in 1..Len(patches) |-> patch_objects[patches[k]]]

\* C4: when no find value of any registered patch occurs in the source text
\* of the factory, the invocation that processes the module returns that
\* same factory (same code, same text), leaves the collection entry as it
\* was and emits no module_patched event.
C4_NoFindLeavesFactoryIdentical ==
    [][\A m \in ModuleIds :
          (/\ first_call'[m] # first_call[m]
           /\ \A k \in 1..Len(patches) :
                 ~FindOccurs(first_call'[m].target.text, Registered[k]))
            => /\ first_call'[m].result = first_call'[m].target
               /\ module_factories'[m] = module_factories[m]
               /\ emitted' = emitted]_vars

\* a processed module in which no registered find occurs although a rule
\* of a registered patch would match its text
C4_Witness ==
    \E m \in ModuleIds :
        /\ first_call[m] # NoCall
        /\ Len(patches) > 0
        /\ \A k \in 1..Len(patches) :
              ~FindOccurs(first_call[m].target.text, Registered[k])
        /\ \E k \in 1..Len(patches) :
              SomeRuleMatches(first_call[m].target.text, Registered[k])
        /\ first_call[m].result = first_call[m].target

\* C5: when the find of some registered patch occurs in the source text but
\* no rule of any patch whose find occurs matches the text, the invocation
\* that processes the module returns the original factory, leaves the
\* collection entry as it was and emits no module_patched event.
C5_NoRuleMatchesLeavesFactoryUnchanged ==
    [][\A m \in ModuleIds :
          (/\ first_call'[m] # first_call[m]
           /\ \E k \in 1..Len(patches) :
                 FindOccurs(first_call'[m].target.text, Registered[k])
           /\ \A k \in 1..Len(patches) :
                 FindOccurs(first_call'[m].target.text, Registered[k])
                    => ~SomeRuleMatches(first_call'[m].target.text, Registered[k]))
            => /\ first_call'[m].result = first_call'[m].target
               /\ module_factories'[m] = module_factories[m]
               /\ emitted' = emitted]_vars

\* a processed module whose text a find matched and no rule did
C5_Witness ==
    \E m \in ModuleIds :
        /\ "no_replacement" \in StepsOf(first_call[m])
        /\ first_call[m].result = first_call[m].target
        /\ module_factories[m] = Proxy(first_call[m].target)
        /\ emitted = <<>>

\* a rule that replaces the first occurrence of a string by a string
PlainRule(rule) ==
    /\ ReplaceMethod(rule) = "replace"
    /\ ~rule.regexp
    /\ rule.fn = "none"

\* C6: a patch of two rules whose second match occurs only in the output of
\* the first rule is applied with both rules: the compiled text is the
\* second rule applied to the output of the first.
C6_RulesChainOnCumulativeText ==
    [][\A m \in ModuleIds :
          LET text == first_call'[m].target.text
              patch == Registered[1]
              rule1 == patch.replacements[1]
              rule2 == patch.replacements[2]
              after1 == ReplaceFirst(text, rule1.match, rule1.replace)
              after2 == ReplaceFirst(after1, rule2.match, rule2.replace)
          IN  (/\ first_call'[m] # first_call[m]
               /\ Len(patches) = 1
               /\ Len(patch.replacements) = 2
               /\ PlainRule(rule1) /\ PlainRule(rule2)
               /\ FindOccurs(text, patch)
               /\ Includes(text, rule1.match)
               /\ ~Includes(text, rule2.match)
               /\ Includes(after1, rule2.match)
               /\ ~Includes(after2, <<SyntaxErrorToken>>))
                => /\ first_call'[m].steps = <<"applied">>
                   /\ first_call'[m].result.text =
                         ResolvePlaceholders(after2, patch.registrar_name)
                   /\ module_factories'[m] = Function(first_call'[m].result)]_vars

\* a module patched by the two-rule patch alone, the text ty of the second
\* rule in place of the text ta the first rule matched
C6_Witness ==
    \E m \in ModuleIds :
        /\ patches = <<1>>
        /\ Len(patch_objects[1].replacements) = 2
        /\ first_call[m].steps = <<"applied">>
        /\ first_call[m].target.text = <<ta, tb>>
        /\ first_call[m].result.text[1] = ty

\* C7: register calls only append to the list of patches, and two
\* registered patches are applied to a module in that order, the find test
\* and the rules of the second on the text the first produced.
C7_PatchesApplyInOrderOnCumulativeText ==
    [][/\ Len(patches') >= Len(patches)
       /\ SubSeq(patches', 1, Len(patches)) = patches
       /\ \A m \in ModuleIds :
             LET target == first_call'[m].target
                 s0 == [factory |-> target, factory_str |-> target.text]
                 s1 == IF FindOccurs(s0.factory_str, Registered[1])
                       THEN _apply_patch(s0.factory, s0.factory_str,
                                         Registered[1].replacements,
                                         CompiledId(m, 1, 1),
                                         Registered[1].registrar_name)
                       ELSE s0
                 s2 == IF FindOccurs(s1.factory_str, Registered[2])
                       THEN _apply_patch(s1.factory, s1.factory_str,
                                         Registered[2].replacements,
                                         CompiledId(m, 1, 2),
                                         Registered[2].registrar_name)
                       ELSE s1
             IN  (first_call'[m] # first_call[m] /\ Len(patches) = 2)
                    => first_call'[m].result.text = s2.factory_str]_vars

\* a module to which two patches were applied, the find of the second
\* absent from the text the module started with
C7_Witness ==
    \E m \in ModuleIds :
        /\ Len(patches) = 2
        /\ first_call[m].steps = <<"applied", "applied">>
        /\ ~FindOccurs(first_call[m].target.text, Registered[2])

\* the source texts of the functions the compile step has made
CompiledTexts ==
    {first_call[m].result.text :
        m \in {n \in ModuleIds : first_call[n].result.id.k = "compiled"}}
    \cup {module_factories[m].f.text :
        m \in {n \in ModuleIds : module_factories[n].f.id.k = "compiled"}}
    \cup {emitted[e].patched_factory.text : e \in 1..Len(emitted)}

\* C8: the text compiled into a patched factory holds none of the three
\* placeholder tokens.
C8_NoPlaceholderInCompiledText ==
    \A text \in CompiledTexts :
        \A k \in 1..Len(text) : text[k] \notin PlaceholderTokens

\* a compiled text in which a data placeholder was resolved
C8_Witness ==
    \E text \in CompiledTexts :
        \E k \in 1..Len(text), n \in Names : text[k] = RegistrarRef("data", n)

\* the patch object whose rules introduce the placeholder of the part
IntroducedBy(part) ==
    CHOOSE pid \in PatchIds :
        \E k \in 1..Len(InitialPatchObjects[pid].replacements) :
            Includes(InitialPatchObjects[pid].replacements[k].replace,
                     <<placeholders[part]>>)

\* C9: every registrar reference in a compiled text names the registrar
\* under whose name the rule that introduced the placeholder was
\* registered, merged patches included.
C9_PlaceholdersResolveToRegisteringRegistrar ==
    \A text \in CompiledTexts :
        \A k \in 1..Len(text) :
            text[k][2] # ""
                => text[k][2] = patch_objects[IntroducedBy(text[k][1])].registrar_name

\* no register call has merged a patch into another one
NothingMerged ==
    \A pid \in PatchIds :
        patch_objects[pid].replacements = InitialPatchObjects[pid].replacements

\* the part of C9 the engine keeps: a text compiled while no patch was
\* merged refers to the registering registrars only
PlaceholdersResolveWhenNothingMerged ==
    NothingMerged => C9_PlaceholdersResolveToRegisteringRegistrar

\* C10: a registrar slot that holds a registrar keeps that very object, and
\* a register call under its name returns it, whatever data and functions
\* the call supplies.
C10_RegistrarsFirstWriterWins ==
    [][\A n \in Names :
          Registrars[n] # NoRegistrar
            => /\ Registrars'[n] = Registrars[n]
               /\ (register_calls' # register_calls /\ returned'.options.name = n)
                     => returned'.registrar = Registrars[n]]_vars

\* a later register call that supplied a data object of its own and got the
\* registrar of an earlier call
C10_Witness ==
    /\ returned.registrar.created # 0
    /\ returned.registrar.created < register_calls
    /\ returned.options.data # 0
    /\ returned.registrar.data # returned.options.data

\* C11: a register call that repeats an earlier call (the same name, the
\* same patch array) leaves this.patches and every patch's replacement list
\* as they were and returns the registrar the earlier call returned.
C11_RegisterIsIdempotent ==
    [][\A n \in Names :
          (/\ register_calls' # register_calls
           /\ returned'.options.name = n
           /\ \A k \in 1..Len(returned'.list) :
                 patch_objects[returned'.list[k]].registrar_name = n)
            => /\ patches' = patches
               /\ \A pid \in PatchIds :
                     patch_objects'[pid].replacements = patch_objects[pid].replacements
               /\ returned'.registrar = Registrars[n]]_vars

\* the part of C11 the engine keeps: the repeated call returns the same
\* registrar and this.patches keeps its patches and their order
RepeatedRegisterKeepsHandleAndOrder ==
    [][\A n \in Names :
          (/\ register_calls' # register_calls
           /\ returned'.options.name = n
           /\ \A k \in 1..Len(returned'.list) :
                 patch_objects[returned'.list[k]].registrar_name = n)
            => /\ patches' = patches
               /\ returned'.registrar = Registrars[n]]_vars

\* the register calls made while this.patcher was null, as the patcher
\* received them at the flush
Replayed ==
    SelectSeq(engine_calls,
              LAMBDA c : c.op = "register_patches" /\ c.registrar # NoRegistrar)

\* C12: once a patcher is attached, the registrar object every register call
\* on the WebpackPatchRegistrar returned, the buffered ones included, is the
\* object the patcher holds in Registrars under the name of the call.
C12_BufferedHandleIsEnginesRegistrar ==
    PatcherIsSet =>
        \A k \in 1..Len(handles) :
            handles[k].registrar = Registrars[handles[k].options.name]

\* The part of C12 that holds: the first call under each name returned the
\* object the patcher holds.
FirstHandleIsEnginesRegistrar ==
    PatcherIsSet =>
        \A k \in 1..Len(handles) :
            (\A j \in 1..(k - 1) : handles[j].options.name # handles[k].options.name)
                => handles[k].registrar = Registrars[handles[k].options.name]

\* the registrations a patcher holds after serving the first k register
\* calls itself, one after the other
RECURSIVE DirectRegistration(_)
DirectRegistration(k) ==
    IF k = 0
    THEN [Registrars |-> [n \in Names |-> NoRegistrar],
          objs |-> InitialPatchObjects, ps |-> <<>>]
    ELSE RegisterOn(DirectRegistration(k - 1), handles[k].options,
                    handles[k].list, NoRegistrar, k)

BufferedCalls(p) ==
    [k \in 1..Len(patch_buffer) |->
        RegisterCall(p, patch_buffer[k].options, patch_buffer[k].patches,
                     patch_buffer[k].registrar)]
    \o [k \in 1..Len(event_listener_buffer) |->
        ListenerCall(p, "add_event_listener", event_listener_buffer[k].event,
                     event_listener_buffer[k].callback)]

\* C14: the set_patcher call that attaches a patcher makes on it exactly the
\* buffered register calls in arrival order followed by the buffered
\* subscriptions in arrival order and leaves both buffers empty; from then
\* on the buffers stay empty and every call on the registrar makes exactly
\* one call on the patcher.
C14_FlushReplaysInArrivalOrder ==
    [][/\ (~PatcherIsSet /\ patcher' # 0)
            => /\ engine_calls' = engine_calls \o BufferedCalls(patcher')
               /\ patch_buffer' = <<>>
               /\ event_listener_buffer' = <<>>
       /\ PatcherIsSet
            => /\ patch_buffer' = <<>>
               /\ event_listener_buffer' = <<>>
               /\ (handles' # handles \/ listener_calls' # listener_calls)
                    => /\ Len(engine_calls') = Len(engine_calls) + 1
                       /\ SubSeq(engine_calls', 1, Len(engine_calls)) = engine_calls
                       /\ engine_calls'[Len(engine_calls')].patcher = patcher
                       /\ engine_calls'[Len(engine_calls')].registrar = NoRegistrar]_vars

\* a buffered register call and a buffered subscription were replayed in
\* that order, and a later unsubscription went to the patcher directly
C14_Witness ==
    /\ PatcherIsSet
    /\ Len(engine_calls) = 3
    /\ engine_calls[1].op = "register_patches"
    /\ engine_calls[1].registrar # NoRegistrar
    /\ engine_calls[2].op = "add_event_listener"
    /\ engine_calls[3].op = "remove_event_listener"
    /\ patch_buffer = <<>>
    /\ event_listener_buffer = <<>>

\* two buffered register calls were replayed first to last
C14_WitnessRegisters ==
    /\ PatcherIsSet
    /\ Len(Replayed) = 2
    /\ Replayed[1].registrar.created = 1
    /\ Replayed[2].registrar.created = 2

\* C15: a set_patcher call made when a patcher is attached changes nothing:
\* this.patcher and both buffers stay as they are, no call is made on any
\* patcher, and the attached patcher's registrations and listeners stay as
\* they are.
C15_ReattachIsNoOp ==
    [][(attach_calls' # attach_calls /\ patcher # 0)
          => /\ patcher' = patcher
             /\ patch_buffer' = patch_buffer
             /\ event_listener_buffer' = event_listener_buffer
             /\ engine_calls' = engine_calls
             /\ Registrars' = Registrars
             /\ patches' = patches
             /\ patch_objects' = patch_objects
             /\ event_listeners' = event_listeners]_vars

\* set_patcher was called with patcher 1 and then with patcher 2, after
\* calls on the registrar that the first attach replayed
C15_Witness ==
    /\ attach_calls = <<1, 2>>
    /\ patcher = 1
    /\ engine_calls # <<>>
    /\ \A k \in 1..Len(engine_calls) : engine_calls[k].patcher = 1

\* C16: once a patcher is attached its listeners are those that result from
\* applying every addEventListener and removeEventListener call made on the
\* registrar, in order: a callback subscribed and unsubscribed while
\* this.patcher was null is not among them.
C16_BufferedRemoveTakesEffect ==
    PatcherIsSet => event_listeners = subscribed

\* the callbacks an emit of event calls, given the listeners at its start
Invocations(event, args) ==
    [k \in 1..Len(event_listeners[event]) |->
        [event |-> event, callback |-> event_listeners[event][k], args |-> args]]

\* C17: the step that detects webpack calls the webpack_detected listeners,
\* every one of them, in the order they subscribed, whether or not one of
\* them throws, and no exception of a listener reaches the setter.
C17_EmitInSubscriptionOrderDespiteThrows ==
    [][(~webpack_detected /\ webpack_detected')
          => /\ Len(delivered') >= Len(delivered)
                                    + Len(event_listeners["webpack_detected"])
             /\ SubSeq(delivered', 1,
                       Len(delivered) + Len(event_listeners["webpack_detected"]))
                  = delivered \o Invocations("webpack_detected", <<webpack_require'>>)
             /\ ~propagated']_vars

\* the throwing callback subscribed first and the other one was still called
C17_Witness ==
    /\ webpack_detected
    /\ event_listeners["webpack_detected"] = <<1, 2>>
    /\ Len(delivered) >= 2
    /\ Throws(delivered[1].callback)
    /\ delivered[2].callback = 2
    /\ ~propagated

\* C18: once webpack is detected it stays detected, this.webpack_require and
\* the collection this.module_factories refers to never change, and a later
\* write to the modules slot of any object calls no listener and no
\* on_detect and creates no factory proxy.
C18_DetectionIsOneShot ==
    [][webpack_detected
          => /\ webpack_detected'
             /\ webpack_require' = webpack_require
             /\ detected_collection' = detected_collection
             /\ written' # written
                  => /\ delivered' = delivered
                     /\ proxies' = proxies
                     /\ module_factories' = module_factories]_vars

\* object 3 qualified (it has the marker and no filter is configured) and
\* was written after object 1 had been detected and on_detect or a listener called
C18_Witness ==
    /\ filter_func = "none"
    /\ Len(written) >= 2
    /\ written[1] = 1
    /\ written[2] = 3
    /\ webpack_require = 1
    /\ delivered # <<>>

\* C19: a write to the modules slot of an object, made before webpack is
\* detected, detects webpack exactly when the object's text has the marker
\* and filter_func, if the patcher has one, returns true for it; a rejected
\* write records nothing.
C19_AcceptedIffMarkerAndFilter ==
    [][(~webpack_detected /\ written' # written)
          => \E obj \in {written'[Len(written')]} :
                /\ webpack_detected'
                     = (HasMarker(obj) /\ (filter_func = "none" \/ FilterAccepts(obj)))
                /\ webpack_detected' => webpack_require' = obj
                /\ ~webpack_detected'
                     => /\ webpack_require' = webpack_require
                        /\ detected_collection' = detected_collection
                        /\ delivered' = delivered]_vars

\* two decoys were rejected (one by the marker test, one by filter_func) and
\* the runtime written after them was detected
C19_Witness ==
    /\ filter_func = "configured"
    /\ written = <<2, 3, 1>>
    /\ webpack_detected
    /\ webpack_require = 1

\* C20: the step in which the modules setter detects webpack calls no
\* webpack_detected listener and no on_detect: they are called later.
C20_DetectionNotifiedAfterTheWrite ==
    [][(~webpack_detected /\ webpack_detected') => delivered' = delivered]_vars

\* C21: the webpackRequire and moduleFactories accessors return null until
\* webpack is detected, and whenever consumer code reads isWebpackDetected as
\* true, between two operations or inside a webpack_detected listener or
\* on_detect, both accessors return a non-null value.
C21_DetectedImpliesAccessorsNonNull ==
    /\ ~webpack_detected
         => Accessors(webpack_require, detected_collection)
              = [webpackRequire |-> 0, moduleFactories |-> 0,
                 isWebpackDetected |-> FALSE]
    /\ \A seen \in {Accessors(webpack_require, detected_collection)}
                   \cup {observed[k] : k \in 1..Len(observed)} :
          seen.isWebpackDetected
             => (seen.webpackRequire # 0 /\ seen.moduleFactories # 0)

\* The part of C21 that holds: what consumer code reads between two
\* operations of the patcher.
AccessorsAgreeBetweenOperations ==
    \E seen \in {Accessors(webpack_require, detected_collection)} :
        /\ seen.isWebpackDetected = webpack_detected
        /\ seen.isWebpackDetected
             = (seen.webpackRequire # 0 /\ seen.moduleFactories # 0)

\* C22: no exception thrown by a listener, by on_detect or by filter_func
\* reaches the code of the host that wrote the modules slot.
C22_NoConsumerExceptionReachesHost == ~propagated

\* The part of C22 that holds: the exceptions of listeners and of on_detect
\* stay inside the patcher.
ListenerExceptionsStayInside == filter_func # "throws" => ~propagated

\* the current_factory of the invocation before pass i of its patch loop
FactoryBefore(call, i) == IF i = 1 THEN call.target ELSE call.after[i - 1]

\* C23: in the invocation that runs the patch loop for a module id, a pass
\* whose rules or compile step throw leaves the current factory as it was
\* before that pass; the id is in patched_modules afterwards; and the factory
\* the invocation runs is the current factory after the last pass.
C23_CompileErrorKeepsFactory ==
    \A m \in ModuleIds :
        first_call[m] # NoCall
          => \E call \in {first_call[m]} :
                /\ m \in patched_modules
                /\ \A i \in 1..Len(call.steps) :
                      call.steps[i] = "threw"
                         => call.after[i] = FactoryBefore(call, i)
                /\ Len(call.steps) > 0
                     => /\ call.result.id = call.after[Len(call.steps)].id
                        /\ call.result.text = call.after[Len(call.steps)].text

\* a patch was applied, the compile step of the next patch threw, and the
\* invocation ran the factory the first patch had made
C23_Witness ==
    \E m \in ModuleIds :
        /\ first_call[m].steps = <<"applied", "threw">>
        /\ first_call[m].after[1].id.k = "compiled"
        /\ first_call[m].result.id = first_call[m].after[1].id
        /\ m \in patched_modules

\* the text after the first k rules, each applied to the output of the one
\* before it
RECURSIVE TextAfterRules(_, _, _)
TextAfterRules(text, rules, k) ==
    IF k = 0 THEN text
    ELSE ApplyRule(TextAfterRules(text, rules, k - 1), rules[k]).code

\* rule k throws: replaceAll with a RegExp without the g flag, or a replace
\* function that throws
RuleThrows(text, rules, k) ==
    ApplyRule(TextAfterRules(text, rules, k - 1), rules[k]).threw

\* rule k makes a substitution: it finds its match in the text the rules
\* before it left, and does not throw
Substituted(text, rules, k) ==
    /\ Includes(TextAfterRules(text, rules, k - 1), rules[k].match)
    /\ ~RuleThrows(text, rules, k)

\* no rule throws and the parser accepts the text the rules leave
NothingThrows(text, rules) ==
    /\ \A k \in 1..Len(rules) : ~RuleThrows(text, rules, k)
    /\ ~CompileThrows(TextAfterRules(text, rules, Len(rules)))

\* the invocations that ran the patch loop with the one patch registered
PatchedCalls == {first_call[m] : m \in {n \in ModuleIds : Len(first_call[n].steps) = 1}}

C25_UnchangedTextKeepsOriginalFactory ==
    \A m \in ModuleIds :
        Len(first_call[m].steps) = 1
          => \E call \in {first_call[m]},
                rules \in {patch_objects[patches[1]].replacements} :
                TextAfterRules(call.target.text, rules, Len(rules)) = call.target.text
                  => /\ call.result = call.target
                     /\ \A k \in 1..Len(emitted) : emitted[k].module_id # m

\* the find set of a patch: the patterns of its find
FindSetOf(find) == {find.items[k] : k \in 1..Len(find.items)}

\* C26: no two entries of this.patches have the same find set.
C26_NoTwoPatchesWithTheSameFindSet ==
    \A i, j \in 1..Len(patches) :
        i # j => FindSetOf(patch_objects[patches[i]].find)
                   # FindSetOf(patch_objects[patches[j]].find)

\* The part of C26 that holds: no two entries of this.patches have finds
\* that are === to each other.
NoTwoPatchesWithStrictlyEqualFinds ==
    \A i, j \in 1..Len(patches) :
        i # j => ~FindStrictEq(patch_objects[patches[i]].find,
                               patch_objects[patches[j]].find)

\* the invocations that ran a registered patch of one rule, which did not
\* throw and whose output compiled, each with that rule
SingleRuleCalls ==
    {[call |-> call, rule |-> patch_objects[patches[1]].replacements[1]] :
        call \in {c \in PatchedCalls :
                    /\ Len(patch_objects[patches[1]].replacements) = 1
                    /\ c.result.id.k = "compiled"}}

\* C27: a rule with global true replaces every occurrence of its match; a
\* rule with global false replaces the first occurrence only; a rule with
\* global unset replaces every occurrence when its match is a RegExp with
\* the g flag and the first occurrence only otherwise.
C27_FirstOccurrenceUnlessGlobal ==
    \A c \in SingleRuleCalls :
        c.call.result.text =
            IF \/ c.rule.global = "true"
               \/ (c.rule.global = "unset" /\ c.rule.regexp /\ c.rule.gflag)
            THEN ReplaceAll(c.call.target.text, c.rule.match, c.rule.replace)
            ELSE ReplaceFirst(c.call.target.text, c.rule.match, c.rule.replace)

\* The part of C27 that holds: rules whose match is a string or a RegExp
\* without the g flag.
RulesWithoutGFlagFollowGlobal ==
    \A c \in SingleRuleCalls :
        ~(c.rule.regexp /\ c.rule.gflag)
          => c.call.result.text =
                IF c.rule.global = "true"
                THEN ReplaceAll(c.call.target.text, c.rule.match, c.rule.replace)
                ELSE ReplaceFirst(c.call.target.text, c.rule.match, c.rule.replace)

\* C28: once a module id is in patched_modules no invocation runs the patch
\* loop for it again, whatever factory the host has assigned under the id
\* since: the invocation runs the factory it was given, the collection keeps
\* its entry, and no module_patched event is emitted for the id.
C28_PatchedModuleIsNeverReexamined ==
    [][\A m \in ModuleIds :
          m \in patched_modules
            => /\ attempts'[m] = attempts[m]
               /\ first_call'[m] = first_call[m]
               /\ emitted' # emitted => emitted'[Len(emitted')].module_id # m
               /\ later_call'[m] # later_call[m]
                    => /\ later_call'[m].ran = later_call'[m].target
                       /\ module_factories'[m] = module_factories[m]]_vars

\* a factory the host assigned after the id was marked, whose text a
\* registered patch's find matches, was invoked and ran as it was
C28_Witness ==
    \E m \in ModuleIds :
        /\ m \in patched_modules
        /\ later_call[m].target.id.k = "host"
        /\ later_call[m].target.id.g >= 1
        /\ later_call[m].target.id # first_call[m].target.id
        /\ \E k \in 1..Len(patches) :
              /\ FindOccurs(later_call[m].target.text, Registered[k])
              /\ SomeRuleMatches(later_call[m].target.text, Registered[k])
        /\ later_call[m].ran = later_call[m].target
        /\ module_factories[m] = Proxy(later_call[m].target)

\* C29: a step in which the modules slot is written or the host assigns a
\* factory runs no patch loop, caches no factory text, marks no module and
\* emits no module_patched event; a module whose wrapper has never been
\* invoked is unmarked, unattempted and uncached; and the invocation that
\* runs the patch loop of a module gives a pass to every patch registered by
\* then, a pass being skipped exactly when no find of the patch occurs in
\* the text the loop has reached.
C29_PatchingIsLazy ==
    [][/\ (written' # written \/ assigned' # assigned)
            => /\ attempts' = attempts
               /\ factory_string_cache' = factory_string_cache
               /\ patched_modules' = patched_modules
               /\ first_call' = first_call
               /\ emitted' = emitted
       /\ \A m \in ModuleIds :
             /\ (first_call'[m] = NoCall /\ later_call'[m] = NoLaterCall)
                   => /\ m \notin patched_modules'
                      /\ attempts'[m] = 0
                      /\ factory_string_cache'[m] = <<>>
             /\ first_call'[m] # first_call[m]
                   => \E call \in {first_call'[m]} :
                         /\ Len(call.steps) = Len(patches)
                         /\ \A k \in 1..Len(patches) :
                               call.steps[k] # "skipped"
                                 <=> FindOccurs(FactoryBefore(call, k).text,
                                                Registered[k])]_vars

\* The module bundled with the runtime was wrapped at detection; the other
\* module was invoked after detection when fewer patches were registered;
\* the bundled module, invoked for the first time after a further register
\* call, had the patch registered last applied to it.
C29_Witness ==
    \E m \in BundledModuleIds, n \in ModuleIds \ BundledModuleIds :
        /\ first_call[n] # NoCall
        /\ first_call[m] # NoCall
        /\ first_call[m].target.id = HostId(m, 0)
        /\ Len(first_call[n].steps) < Len(first_call[m].steps)
        /\ first_call[m].steps[Len(first_call[m].steps)] = "applied"
        /\ m \in patched_modules

\* C30: once the runtime is detected, the collection entry of every module
\* whose patch loop has not run is a factory proxy around a factory of the
\* host, and a step in which the host assigns a factory under an id leaves
\* the proxy of that factory in the id's entry.
C30_UnexaminedFactoriesAreStoredWrapped ==
    [][/\ webpack_detected'
            => \A m \in ModuleIds :
                  (module_factories'[m].kind # "absent" /\ attempts'[m] = 0)
                     => /\ module_factories'[m].kind = "proxy"
                        /\ module_factories'[m].f.id = HostId(m, assigned'[m])
                        /\ module_factories'[m].f.orig = NoId
       /\ \A m \in ModuleIds :
             assigned'[m] # assigned[m]
                => /\ module_factories'[m].kind = "proxy"
                   /\ module_factories'[m].f.id = HostId(m, assigned'[m])]_vars

\* the factory bundled with the runtime and a factory assigned after
\* detection are both stored as factory proxies, neither module having been
\* invoked, while a patch whose find occurs in the bundled text is registered
C30_Witness ==
    \E m \in BundledModuleIds, n \in ModuleIds \ BundledModuleIds :
        /\ webpack_detected
        /\ attempts[m] = 0 /\ attempts[n] = 0
        /\ module_factories[m].kind = "proxy"
        /\ module_factories[m].f.id = HostId(m, 0)
        /\ module_factories[n].kind = "proxy"
        /\ module_factories[n].f.id = HostId(n, 1)
        /\ \E k \in 1..Len(patches) :
              FindOccurs(module_factories[m].f.text, Registered[k])

\* the modules setter returns at one of its three early returns, the filter
\* function, if any, having returned
ModulesWriteIsRejected(obj) ==
    \/ webpack_detected
    \/ ~HasMarker(obj)
    \/ filter_func = "configured" /\ obj = 3

\* the cache setter returns at one of its three early returns
CacheWriteIsRejected(obj) ==
    \/ cache_detected
    \/ ~HasMarker(obj)
    \/ filter_func = "configured" /\ obj = 3

\* what the engine has recorded and fired
EngineState ==
    <<webpack_detected, cache_detected, webpack_require, detected_collection,
      webpack_cache, module_factories, proxies, delivered, observed, emitted,
      propagated>>

\* C31: a first write to the modules or cache slot of a function object that
\* the setter rejects (detection already made, no marker, or the filter
\* function returned false) leaves the object with its own plain property
\* holding the value written and changes nothing the engine has recorded or
\* fired; a later write to that property stores the value written and
\* changes no engine state either.
C31_RejectedWriteCompletesAndChangesNothing ==
    [][\A obj \in HostObjects :
          /\ (modules_slot'[obj] # modules_slot[obj] /\ ~modules_slot[obj].own
                 /\ ModulesWriteIsRejected(obj))
                => /\ modules_slot'[obj] = [own |-> TRUE, value |-> obj,
                                             proxied |-> FALSE]
                   /\ EngineState' = EngineState
          /\ (cache_slot'[obj] # cache_slot[obj] /\ ~cache_slot[obj].own
                 /\ CacheWriteIsRejected(obj))
                => /\ cache_slot'[obj].own /\ ~cache_slot'[obj].proxied
                   /\ cache_slot'[obj].value \in AssignedValues
                   /\ EngineState' = EngineState
          /\ (modules_slot'[obj] # modules_slot[obj] /\ modules_slot[obj].own)
                => /\ modules_slot'[obj].own /\ ~modules_slot'[obj].proxied
                   /\ EngineState' = EngineState
          /\ (cache_slot'[obj] # cache_slot[obj] /\ cache_slot[obj].own)
                => /\ cache_slot'[obj].own /\ ~cache_slot'[obj].proxied
                   /\ EngineState' = EngineState]_vars

\* the runtime was detected and its cache recorded; the modules and cache
\* slots of the object the filter function rejects were written afterwards
\* and hold the values written; the modules slot of the object without the
\* marker was written and then written again
C31_Witness ==
    /\ webpack_detected /\ cache_detected
    /\ filter_func = "configured"
    /\ written = <<1, 3, 2>>
    /\ modules_slot[3] = [own |-> TRUE, value |-> 3, proxied |-> FALSE]
    /\ cache_slot[3].own /\ cache_slot[3].value # webpack_cache
    /\ modules_slot[2] = [own |-> TRUE, value |-> 4, proxied |-> FALSE]
    /\ webpack_require = 1

\* C32: whenever module_patched is emitted for a module id, and so whenever
\* one of its subscribers runs, the id is already in patched_modules and the
\* collection entry already is the resulting factory.
C32_MarkedBeforeSubscribersRun ==
    \A k \in 1..Len(emitted) :
        /\ emitted[k].marked
        /\ emitted[k].entry = Function(emitted[k].patched_factory)

\* The part of C32 that holds: the resulting factory is stored before
\* module_patched is emitted, and the invocation runs it after the emit.
StoredBeforeSubscribersRun ==
    \A k \in 1..Len(emitted) :
        /\ emitted[k].entry = Function(emitted[k].patched_factory)
        /\ first_call[emitted[k].module_id].result = emitted[k].patched_factory

\* the factory proxy was invoked, a patch replaced its factory, and the
\* collection entry of its module is the patched factory
PatchedThrough(p) ==
    \E k \in 1..Len(emitted) :
        /\ emitted[k].original_factory = p.target
        /\ module_factories[p.module_id] = Function(emitted[k].patched_factory)

\* the factory that is authoritative for a factory proxy: the stored
\* patched factory once its module is patched, its own target before
AuthoritativeFactory(p) ==
    IF PatchedThrough(p) THEN module_factories[p.module_id].f ELSE p.target

\* the properties other than the two symbols by which the collection proxy
\* recognises a factory proxy
OrdinaryProps == FactoryProps \ {"SYM_PROXY_INNER_GET", "SYM_PROXY_INNER_VALUE"}

\* C33: every read of toString or of an ordinary property on a factory proxy
\* returns what the same read returns on the factory authoritative for it:
\* its target before the module is patched, the stored patched factory
\* afterwards.
C33_WrapperReadsFollowAuthoritativeFactory ==
    \A p \in proxies, prop \in OrdinaryProps :
        _handle_factory_get(p.target, prop) = FunctionGet(AuthoritativeFactory(p), prop)

\* The part of C33 that holds: before its module is patched, a factory proxy
\* answers toString and ordinary property reads as its target does.
WrapperReadsTargetBeforePatch ==
    \A p \in proxies, prop \in OrdinaryProps :
        ~PatchedThrough(p)
           => _handle_factory_get(p.target, prop) = FunctionGet(p.target, prop)

\* the text of a factory proxy is still its target's after the module is
\* patched
WrapperTextIsTheOriginalAfterPatch ==
    \A p \in proxies :
        PatchedThrough(p)
           => _handle_factory_get(p.target, "toString") = FunctionGet(p.target, "toString")

\* the invocations of callback made by the step
CallsInStep(callback) ==
    {k \in (Len(delivered) + 1)..Len(delivered') : delivered'[k].callback = callback}

\* the subscriptions of callback to the event before the step
SubscriptionsOf(event, callback) ==
    {j \in 1..Len(event_listeners[event]) : event_listeners[event][j] = callback}

\* a callback of the step subscribed or unsubscribed callback
TouchedInStep(callback) ==
    \/ callback = 3 /\ CallsInStep(3) # {}
    \/ callback = 2 /\ (CallsInStep(4) # {} \/ CallsInStep(5) # {})

\* C34: in a step that emits an event, every callback subscribed to the
\* event when the emit starts, and neither unsubscribed nor subscribed again
\* by a callback of that emit, is invoked once for each of its
\* subscriptions, whatever the callbacks do to other subscriptions.
C34_EverySubscriberInvokedExactlyOnce ==
    [][\A event \in Events, callback \in Callbacks \cup ReentrantCallbacks :
          (/\ delivered' # delivered
           /\ delivered'[Len(delivered')].event = event
           /\ ~TouchedInStep(callback))
             => Cardinality(CallsInStep(callback))
                  = Cardinality(SubscriptionsOf(event, callback))]_vars

\* The part of C34 that holds: when no callback of the emit unsubscribes
\* anything, every callback subscribed at the start is invoked once for each
\* of its subscriptions.
EverySubscriberInvokedWhenNoneUnsubscribes ==
    [][\A event \in Events, callback \in Callbacks \cup ReentrantCallbacks :
          (/\ delivered' # delivered
           /\ delivered'[Len(delivered')].event = event
           /\ CallsInStep(3) = {} /\ CallsInStep(4) = {}
           /\ callback # 2 \/ CallsInStep(5) = {})
             => Cardinality(CallsInStep(callback))
                  = Cardinality(SubscriptionsOf(event, callback))]_vars

\* the buffer holds a register call made without a name
NamelessBuffered ==
    \E i \in 1..Len(patch_buffer) : patch_buffer[i].options.name = ""

\* C35: the set_patcher call that attaches the patcher while a register
\* call without a name is buffered lets no exception out, replays every
\* buffered register call that has a name and every buffered subscription,
\* and leaves both buffers empty.
C35_InvalidBufferedRegistrationIsContained ==
    [][(patcher = 0 /\ patcher' # 0 /\ NamelessBuffered)
          => /\ propagated' = propagated
             /\ patch_buffer' = <<>>
             /\ event_listener_buffer' = <<>>
             /\ \A i \in 1..Len(patch_buffer) :
                   patch_buffer[i].options.name # ""
                     => \E k \in 1..Len(patches') :
                           patches'[k] = patch_buffer[i].patches[1]
             /\ \A j \in 1..Len(event_listener_buffer) :
                   \E k \in 1..Len(event_listeners'[event_listener_buffer[j].event]) :
                      event_listeners'[event_listener_buffer[j].event][k]
                         = event_listener_buffer[j].callback]_vars

\* What set_patcher does with such a buffer: the register calls buffered
\* before the one without a name reach the patcher, and the exception
\* leaves set_patcher with both buffers as they were.
ReplayStopsAtTheNamelessRegistration ==
    [][(patcher = 0 /\ patcher' # 0 /\ NamelessBuffered)
          => /\ propagated'
             /\ patch_buffer' = patch_buffer
             /\ event_listener_buffer' = event_listener_buffer
             /\ event_listeners' = event_listeners
             /\ \A i \in 1..Len(patch_buffer) :
                   (\A h \in 1..i : patch_buffer[h].options.name # "")
                     => \E k \in 1..Len(patches') :
                           patches'[k] = patch_buffer[i].patches[1]]_vars

EventsOf(m) == {k \in 1..Len(emitted) : emitted[k].module_id = m}

AppliedPasses(call) == {k \in 1..Len(call.steps) : call.steps[k] = "applied"}

\* the last pass of the call that was applied
LastApplied(call) ==
    CHOOSE k \in AppliedPasses(call) : \A j \in AppliedPasses(call) : j <= k

\* a pass after an applied one found no match for any rule, or threw
FailedAfterApplied(call) ==
    \E i \in AppliedPasses(call), k \in 1..Len(call.steps) :
        i < k /\ call.steps[k] \in {"threw", "no_replacement"}

\* C38: when a pass of the patch loop of a module is applied and a later
\* pass finds no match for any of its rules or throws, the factory the
\* invocation runs, and the one stored in the collection and reported by
\* module_patched, is the one the last applied pass compiled, with that
\* pass's text, and not the original.
C38_EarlierPatchesSurviveALaterFailure ==
    \A m \in ModuleIds :
        FailedAfterApplied(first_call[m])
          => \E call \in {first_call[m]} :
                /\ call.result.id = CompiledId(m, 1, LastApplied(call))
                /\ call.result.text = call.after[LastApplied(call)].text
                /\ call.result.text # call.target.text
                /\ call.result # call.target
                /\ \E k \in 1..Len(emitted) :
                      /\ emitted[k].module_id = m
                      /\ emitted[k].entry = Function(call.result)

\* the first patch was applied, no rule of the second patch matched the
\* text it left, and the collection holds the first patch's factory
C38_Witness ==
    \E m \in ModuleIds :
        /\ first_call[m].steps = <<"applied", "no_replacement">>
        /\ module_factories[m] = Function(first_call[m].result)
        /\ first_call[m].result.id = CompiledId(m, 1, 1)

\* the slot held a truthy value when detect_and_hook_webpack was called
FoundAtCall == detect_called /\ callback_calls # <<>> /\ callback_calls[1].sync

\* C39: the callback of detect_and_hook_webpack is invoked at most once.
\* When the slot holds a truthy value at the call, it is invoked in that
\* call.  Otherwise it is not invoked in the call nor in the step of an
\* assignment: it is invoked by the timer the setter set at the first
\* assignment made after the call, which is pending from that assignment
\* until it fires; when the setter returns the slot is a data property
\* holding the value assigned, and it is a data property holding the last
\* value assigned when the callback runs; no later assignment sets a timer.
\* Once the setter has run, the callback is eventually invoked.
C39_CallbackExactlyOnce ==
 /\ webpack_found ~> Len(callback_calls) = 1
 /\ [][/\ Len(callback_calls') <= 1
       /\ (~detect_called /\ detect_called')
             => (callback_calls' # callback_calls <=> SlotIsTruthy)
       /\ slot_writes' # slot_writes
             => /\ callback_calls' = callback_calls
                /\ window_slot.kind = "accessor"
                      => /\ window_slot' = [kind |-> "data",
                                             value |-> slot_writes'[Len(slot_writes')]]
                         /\ timers' = 1
                /\ window_slot.kind # "accessor" => timers' = timers
       /\ (callback_calls' # callback_calls /\ detect_called)
             => /\ ~callback_calls'[1].sync
                /\ webpack_found
                /\ window_slot.kind = "data"
                /\ window_slot.value = slot_writes[Len(slot_writes)]
                /\ callback_calls'[1].slot = window_slot
       /\ (webpack_found' /\ callback_calls' = <<>>) => timers' = 1
       /\ callback_calls' # <<>> => timers' = 0]_vars

\* the script started before the page had a chunk array; the page assigned
\* one, assigned another before the timer fired, and assigned again after
\* the callback had run once, with the data property then in place
C39_Witness ==
    /\ detect_called
    /\ webpack_found
    /\ Len(slot_writes) = 3
    /\ slot_writes[1] = 1
    /\ Len(callback_calls) = 1
    /\ ~callback_calls[1].sync
    /\ callback_calls[1].slot = [kind |-> "data", value |-> slot_writes[2]]
    /\ window_slot = [kind |-> "data", value |-> slot_writes[3]]
    /\ timers = 0

\* the page had its chunk array when the script started, and the callback
\* ran inside detect_and_hook_webpack
C39_WitnessSynchronous ==
    /\ FoundAtCall
    /\ callback_calls[1].slot.value = 1
    /\ Len(slot_writes) >= 2
    /\ Len(callback_calls) = 1

\* the objects of an argument list, in order
Refs(args) == [k \in 1..Len(args) |-> args[k].ref]

\* the number of method patches passed to register_patch for a module id
RECURSIVE RegisteredFor(_, _)
RegisteredFor(module_id, n) ==
    IF n = 0 THEN 0
    ELSE RegisteredFor(module_id, n - 1)
         + (IF legacy_registered[n].module_id = module_id
            THEN Len(legacy_registered[n].methods) ELSE 0)

\* a call of the hooked push forwarded its arguments and returned the
\* result of the original push
IsTransparent(call) ==
    /\ ~call.threw
    /\ call.called
    /\ Refs(call.forwarded) = Refs(call.given)
    /\ call.returned = call.result

\* the attempts of a call were made for registered targets outside the
\* patched set, on a pushed chunk, while the array had its length of
\* before the call
AttemptsAreJustified(call) ==
    \A k \in 1..Len(call.attempted) :
        /\ call.attempted[k].target
        /\ ~call.attempted[k].patched
        /\ \E a \in 1..Len(call.given) :
              /\ call.given[a].ref = call.attempted[k].ref
              /\ \E j \in 1..Len(call.given[a].ids) :
                    call.given[a].ids[j] = call.attempted[k].module_id
        /\ call.called => call.attempted[k].length = call.result - Len(call.given)

\* no patch count exceeds the method patches registered for its module
CountsAreBounded ==
    \A module_id \in LegacyModuleIds :
        patch_counts[module_id] <= RegisteredFor(module_id, Len(legacy_registered))

\* C40: every call of the hooked push forwards exactly the arguments it was
\* given to the original push and returns its result; a pushed module is
\* attempted only if its id is a registered target outside the patched set,
\* before the chunk is appended; no patch count exceeds the number of
\* method patches registered for its module.
C40_HookedPushIsTransparent ==
    /\ \A n \in 1..Len(pushes) :
          pushes[n].hooked
            => IsTransparent(pushes[n]) /\ AttemptsAreJustified(pushes[n])
    /\ CountsAreBounded

\* every argument that is an array of length >= 2 has an iterable element 0
HasIterableIds(call) ==
    \A a \in 1..Len(call.given) :
        call.given[a].kind = "chunk" => call.given[a].iterable

\* What the hooked push does: it is transparent in every call whose chunks
\* have iterable ids, whether or not patching failed; a call with a chunk
\* whose element 0 is not iterable throws before the original push is
\* called; the attempts and the counts are as C40 states in every call.
HookedPushIsTransparentForIterableIds ==
    /\ \A n \in 1..Len(pushes) :
          pushes[n].hooked
            => /\ HasIterableIds(pushes[n]) <=> IsTransparent(pushes[n])
               /\ ~HasIterableIds(pushes[n])
                     => pushes[n].threw /\ ~pushes[n].called
               /\ AttemptsAreJustified(pushes[n])
    /\ CountsAreBounded

\* a module whose null exports made patch_module throw was attempted in a
\* hooked push that was forwarded, after another module had been patched
\* up to the number of its registered method patches
HookedPushForwardsAfterAFailedPatch ==
    /\ Len(pushes) = 2
    /\ pushes[2].hooked
    /\ IsTransparent(pushes[2])
    /\ Len(pushes[2].attempted) = 1
    /\ ~pushes[2].given[1].has_exports
    /\ \E module_id \in LegacyModuleIds :
          /\ patch_counts[module_id] = 2
          /\ RegisteredFor(module_id, Len(legacy_registered)) = 2

====
